---- MODULE Spec2Model ----
(***************************************************************************)
(* Model of the interactive ReAct agent of monarch-mcp                     *)
(* (examples/react_agent.py) and of the query-service client it shares     *)
(* (src/monarch_mcp/client.py), of the client lifetime in the two servers  *)
(* (src/monarch_mcp/api_server.py, server.py) and of the batch lookup      *)
(* (src/monarch_mcp/tools/entity.py).                                      *)
(*                                                                         *)
(* Texts are sequences of tokens: a token stands for a run of characters   *)
(* that the code never looks inside ("Thought" prose, a JSON member).      *)
(* The marker "Action:", the braces and white space are tokens of their    *)
(* own, because the code searches for them.                                *)
(*                                                                         *)
(* Waiting times are Python floats.  They are kept exactly, as integer     *)
(* multiples of 1/Scale second; every value the retry loop computes is a   *)
(* dyadic rational that both a double and this representation hold         *)
(* without rounding.                                                       *)
(***************************************************************************)
EXTENDS Integers, Sequences, FiniteSets, TLC

VARIABLES
    pc,            \* position of main(): "start", "startup", "input",
                   \* "completion", "tool", "done"
    rpc,           \* position of call_openai_with_retry: "idle", "calling",
                   \* "sleeping", "returned", "raised"
    api_client,    \* "none", "open", "closed": the MonarchClient of main()
    closes,        \* number of api_client.close() calls made
    history,       \* the message list of the current question
    i,             \* loop variable of `for i in range(15)`
    requests,      \* call_openai_with_retry calls made for this question
    max_retries,   \* parameter of the current call_openai_with_retry
    initial_wait,  \* parameter of the current call_openai_with_retry (s)
    attempt,       \* loop variable of the retry loop
    wait_time,     \* local of the retry loop, in 1/Scale s
    slept,         \* the waits time.sleep() was given in this request
    calls,         \* provider calls made in this request
    response,      \* response_text of the request that returned
    raised,        \* the exception in flight or that ended main()
    tool_outcome,  \* how the tool call of the current step ended (the locals
                   \* `observation` and `e` of main())
    sigint,        \* "none", or "cancel_pending": the main task was
                   \* cancelled by the SIGINT handler of asyncio.run and the
                   \* CancelledError waits for the next suspension
    report,        \* what the session printed as its result
    questions,     \* questions read at the prompt so far
    question,      \* the local `question` of main(): the line read last
    \* the servers (api_server.py, server.py)
    server,        \* "rest" or "mcp": which of the two modules runs
    lifespan_pc,   \* position of lifespan(): "before", "serving", "after"
    shared_client, \* the module global _client: "None" or "client"
    created,       \* MonarchClient() constructions made by the server
    server_closes, \* close() calls made on the server's client
    handlers,      \* the requests: where each handler or wrapper stands
    \* EntityApi.get_entities_batch (tools/entity.py)
    entity_ids,    \* the argument
    results,       \* the local list `results`
    lookups,       \* the ids client.get was called with, in order
    batch_pc,      \* "loop", "returned" or "raised"
    lookup_outcome, \* how the last client.get ended
    \* the extraction and parsing of one response on its own
    parts,         \* the response: Thought prose, the marker, filler,
                   \* the action object, trailing prose
    parsed,        \* what lines 144-166 made of it
    \* one call of a query tool (tools/search.py, tools/entity.py)
    tool_call,     \* the tool and the keywords it is called with
    query_pc,      \* "idle", "called" or "returned"
    gets,          \* the client.get calls made: endpoint and params
    \* one POST /chat (api_server.py)
    chat_request,  \* the ChatRequest and whether OPENAI_API_KEY is set
    chat_pc,       \* "idle", "received", "awaiting", "responded"
    messages,      \* the list given to chat.completions.create
    provider_calls, \* chat.completions.create calls made
    chat_response, \* status and detail of the answer
    \* the routing of one request of the REST server
    http_request,  \* method and path
    served         \* the handler the router chose, or the status it gave

vars == <<pc, rpc, api_client, closes, history, i, requests, max_retries,
          initial_wait, attempt, wait_time, slept, calls, response, raised,
          tool_outcome, sigint, report, questions, question, server,
          lifespan_pc, shared_client, created, server_closes, handlers,
          entity_ids, results, lookups, batch_pc, lookup_outcome, parts,
          parsed, tool_call, query_pc, gets, chat_request, chat_pc,
          messages, provider_calls, chat_response, http_request, served>>

agentVars == <<pc, rpc, api_client, closes, history, i, requests,
               max_retries, initial_wait, attempt, wait_time, slept, calls,
               response, raised, tool_outcome, sigint, report, questions,
               question>>

serverVars == <<server, lifespan_pc, shared_client, created, server_closes,
                handlers>>

batchVars == <<entity_ids, results, lookups, batch_pc, lookup_outcome>>

parserVars == <<parts, parsed>>

queryVars == <<tool_call, query_pc, gets>>

chatVars == <<chat_request, chat_pc, messages, provider_calls,
              chat_response>>

routeVars == <<http_request, served>>

retryVars == <<rpc, max_retries, initial_wait, attempt, wait_time, slept,
               calls, response>>

(***************************************************************************)
(* Program constants                                                       *)
(***************************************************************************)
MAX_STEPS == 15

DEFAULT_MAX_RETRIES == 10

DEFAULT_INITIAL_WAIT == 25

WAIT_CAP == 60

TRUNCATE_AT == 2000

(***************************************************************************)
(* Bounds of the model                                                     *)
(***************************************************************************)
\* largest max_retries the stand-alone retry specification passes
MaxRetriesArg == 11

\* questions one run of the program is asked
MaxQuestions == 2

\* the initial waits (seconds) the stand-alone retry specification passes
InitialWaits == {1, 25, 40, 60, 61, 90}

\* waits are integers in units of 1/Scale second
Scale == 2 ^ (MaxRetriesArg + 1)

Min(a, b) == IF a <= b THEN a ELSE b

(***************************************************************************)
(* Tokens                                                                  *)
(***************************************************************************)
WS == " "
MARK == "Action:"
LB == "{"
RB == "}"

\* "tool_name": <value> members of an action object
ToolNameTokens == {"tn=finish", "tn=get_entity", "tn=get_associations",
                   "tn=does_not_exist", "tn=7", "tn=[]"}

\* the Python value json.loads gives the tool_name member
TokenToolName(tok) ==
    CASE tok = "tn=finish" -> [type |-> "str", val |-> "finish"]
      [] tok = "tn=get_entity" -> [type |-> "str", val |-> "get_entity"]
      [] tok = "tn=get_associations" ->
             [type |-> "str", val |-> "get_associations"]
      [] tok = "tn=does_not_exist" ->
             [type |-> "str", val |-> "does_not_exist"]
      [] tok = "tn=7" -> [type |-> "int", val |-> "7"]
      [] OTHER -> [type |-> "list", val |-> "[]"]

\* keys of the "arguments" object
ArgKeyTokens == {"entity_id", "category", "bogus"}

NoneValue == [type |-> "none", val |-> "None"]

\* json.loads("{}"): action.get("tool_name") is None, no answer, no arguments
EmptyAction == [tool_name |-> NoneValue, has_answer |-> FALSE,
                arguments |-> [present |-> FALSE, mapping |-> TRUE,
                               keys |-> {}]]

ParseFail == [ok |-> FALSE, next |-> 0, val |-> EmptyAction]

(***************************************************************************)
(* json.loads on a token sequence: one object, members in any order, the   *)
(* last of two equal keys wins, white space skipped, nothing after the     *)
(* closing brace.                                                          *)
(***************************************************************************)
RECURSIVE ParseArgs(_, _, _)
ParseArgs(s, p, keys) ==
    IF p > Len(s) THEN [ok |-> FALSE, next |-> 0, keys |-> {}]
    ELSE IF s[p] = RB THEN [ok |-> TRUE, next |-> p + 1, keys |-> keys]
    ELSE IF s[p] = WS THEN ParseArgs(s, p + 1, keys)
    ELSE IF s[p] \in ArgKeyTokens THEN ParseArgs(s, p + 1, keys \cup {s[p]})
    ELSE [ok |-> FALSE, next |-> 0, keys |-> {}]

RECURSIVE ParseMembers(_, _, _)
ParseMembers(s, p, acc) ==
    IF p > Len(s) THEN ParseFail
    ELSE IF s[p] = RB THEN [ok |-> TRUE, next |-> p + 1, val |-> acc]
    ELSE IF s[p] = WS THEN ParseMembers(s, p + 1, acc)
    ELSE IF s[p] \in ToolNameTokens THEN
        ParseMembers(s, p + 1, [acc EXCEPT !.tool_name = TokenToolName(s[p])])
    ELSE IF s[p] = "answer" THEN
        ParseMembers(s, p + 1, [acc EXCEPT !.has_answer = TRUE])
    ELSE IF s[p] = "arguments=" THEN
        IF p + 1 > Len(s) THEN ParseFail
        ELSE IF s[p + 1] = "scalar" THEN
            ParseMembers(s, p + 2,
                [acc EXCEPT !.arguments = [present |-> TRUE,
                                           mapping |-> FALSE, keys |-> {}]])
        ELSE IF s[p + 1] = LB THEN
            LET a == ParseArgs(s, p + 2, {})
            IN  IF a.ok
                THEN ParseMembers(s, a.next,
                        [acc EXCEPT !.arguments = [present |-> TRUE,
                                       mapping |-> TRUE, keys |-> a.keys]])
                ELSE ParseFail
        ELSE ParseFail
    ELSE ParseFail

\* json.loads(action_json_str): ok = FALSE is json.JSONDecodeError
JsonLoads(s) ==
    IF Len(s) = 0 \/ s[1] # LB THEN ParseFail
    ELSE LET r == ParseMembers(s, 2, EmptyAction)
         IN  IF r.ok /\ r.next = Len(s) + 1 THEN r ELSE ParseFail

(***************************************************************************)
(* str.find, str.rfind, str.split(sep, 1)[1], str.strip and slicing, with  *)
(* Python's 0-based positions; Find and RFind give -1 when absent.         *)
(***************************************************************************)
Find(s, tok) ==
    IF \E k \in 1..Len(s) : s[k] = tok
    THEN (CHOOSE k \in 1..Len(s) :
              s[k] = tok /\ \A j \in 1..(k - 1) : s[j] # tok) - 1
    ELSE -1

\* RFind giving the first position in place of the last
RFind_first(s, tok) == Find(s, tok)

RFind(s, tok) ==
    IF \E k \in 1..Len(s) : s[k] = tok
    THEN (CHOOSE k \in 1..Len(s) :
              s[k] = tok /\ \A j \in (k + 1)..Len(s) : s[j] # tok) - 1
    ELSE -1

\* s[a:b] for 0 <= a, 0 <= b
Slice(s, a, b) == SubSeq(s, a + 1, Min(b, Len(s)))

AfterFirst(s, tok) == Slice(s, Find(s, tok) + 1, Len(s))

RECURSIVE LStrip(_)
LStrip(s) == IF Len(s) > 0 /\ s[1] = WS THEN LStrip(Tail(s)) ELSE s

RECURSIVE RStrip(_)
RStrip(s) ==
    IF Len(s) > 0 /\ s[Len(s)] = WS THEN RStrip(SubSeq(s, 1, Len(s) - 1))
    ELSE s

Strip(s) == RStrip(LStrip(s))

\* ExtractActionJson looking for the braces in the whole response
ExtractActionJson_anywhere(response_text) ==
    IF Find(response_text, MARK) # -1
    THEN LET action_part == Strip(response_text)
             json_start == Find(action_part, LB)
             json_end == RFind(action_part, RB) + 1
         IN  IF json_start # -1 /\ json_end # -1 /\ json_end > json_start
             THEN Slice(action_part, json_start, json_end)
             ELSE << >>
    ELSE << >>

\* lines 144-154: action_json_str, << >> when nothing is extracted
ExtractActionJson(response_text) ==
    IF Find(response_text, MARK) # -1
    THEN LET action_part == Strip(AfterFirst(response_text, MARK))
             json_start == Find(action_part, LB)
             json_end == RFind(action_part, RB) + 1
         IN  IF json_start # -1 /\ json_end # -1 /\ json_end > json_start
             THEN Slice(action_part, json_start, json_end)
             ELSE << >>
    ELSE << >>

(***************************************************************************)
(* The tool catalog (TOOL_DISPATCH) and the signatures of its tools.  Two  *)
(* of the catalog's tools are modelled: one with a required parameter and  *)
(* one whose parameters all have defaults.                                 *)
(***************************************************************************)
TOOL_DISPATCH == {"get_entity", "get_associations"}

\* parameters without a default, after (self, client)
Required(tool) == IF tool = "get_entity" THEN {"entity_id"} ELSE {}

\* parameters the signature accepts by keyword
Accepted(tool) == IF tool = "get_entity" THEN {"entity_id"} ELSE {"category"}

\* tool_callable(api_client, **arguments) binds without a TypeError
Binds(tool, arguments) ==
    /\ arguments.mapping
    /\ Required(tool) \subseteq arguments.keys
    /\ arguments.keys \subseteq Accepted(tool)

(***************************************************************************)
(* What one response makes the loop body do (lines 142-219), up to the     *)
(* point where a tool is awaited.                                          *)
(***************************************************************************)
\* message.content of a completion without text
NoneText == <<"<None>">>

\* Classify with an action without `arguments` failing at the call
Classify_requiresArguments(response_text) ==
    IF response_text = NoneText THEN "type_error"
    ELSE LET action_json_str == ExtractActionJson(response_text)
         IN  IF action_json_str = << >> THEN "no_action"
             ELSE LET r == JsonLoads(action_json_str)
                      tool_name == r.val.tool_name
                      arguments == r.val.arguments
                  IN  IF ~r.ok THEN "invalid_json"
                      ELSE IF tool_name.type = "str"
                              /\ tool_name.val = "finish" THEN "finish"
                      ELSE IF tool_name.type = "list" THEN "unhashable"
                      ELSE IF ~(tool_name.type = "str"
                                /\ tool_name.val \in TOOL_DISPATCH)
                           THEN "unknown_tool"
                      ELSE IF ~arguments.present
                              \/ ~Binds(tool_name.val, arguments)
                           THEN "bad_arguments"
                      ELSE "invoke"

Classify(response_text) ==
    IF response_text = NoneText THEN "type_error"
    ELSE LET action_json_str == ExtractActionJson(response_text)
         IN  IF action_json_str = << >> THEN "no_action"
             ELSE LET r == JsonLoads(action_json_str)
                      tool_name == r.val.tool_name
                      arguments == r.val.arguments
                  IN  IF ~r.ok THEN "invalid_json"
                      ELSE IF tool_name.type = "str"
                              /\ tool_name.val = "finish" THEN "finish"
                      ELSE IF tool_name.type = "list" THEN "unhashable"
                      ELSE IF ~(tool_name.type = "str"
                                /\ tool_name.val \in TOOL_DISPATCH)
                           THEN "unknown_tool"
                      ELSE IF ~Binds(tool_name.val, arguments)
                           THEN "bad_arguments"
                      ELSE "invoke"

\* action of a response that json.loads accepted
ActionOf(response_text) == JsonLoads(ExtractActionJson(response_text)).val

(***************************************************************************)
(* Turns of the history.  content is the text as a sequence of pieces;     *)
(* payload measures the piece that stands for bulk text (a serialised      *)
(* result, an error message): its number of characters and whether the     *)
(* truncation marker follows it.                                           *)
(***************************************************************************)
NoPayload == [chars |-> 0, marker |-> FALSE]

Turn(role, content) ==
    [role |-> role, content |-> content, payload |-> NoPayload]

\* lines 158-163
ObsNoAction ==
    Turn("user", <<"Observation: Error parsing action. Please ensure the Action block contains valid JSON.">>)

\* ObsInvalidJson with the message of lines 158-163
ObsInvalidJson_sameMessage == ObsNoAction

\* lines 206-211
ObsInvalidJson ==
    Turn("user", <<"Observation: Error parsing action JSON. Use valid JSON format.">>)

\* ObsInvalidTool without the name in the message
ObsInvalidTool_noName(tool_name) ==
    Turn("user", <<"Observation: Invalid tool name. Choose from available tools.">>)

\* lines 177-182
ObsInvalidTool(tool_name) ==
    Turn("user", <<"Observation: Invalid tool name '", tool_name.val,
                   "'. Choose from available tools.">>)

\* lines 214-219: str(e) is not shortened
ObsError(text, chars) ==
    [role |-> "user",
     content |-> <<"Observation: Error occurred: ", text>>,
     payload |-> [chars |-> chars, marker |-> FALSE]]

\* Truncate cutting from TRUNCATE_AT characters on
Truncate_inclusive(len) ==
    IF len >= TRUNCATE_AT THEN [chars |-> TRUNCATE_AT, marker |-> TRUE]
    ELSE [chars |-> len, marker |-> FALSE]

\* lines 195-196
Truncate(len) ==
    IF len > TRUNCATE_AT THEN [chars |-> TRUNCATE_AT, marker |-> TRUE]
    ELSE [chars |-> len, marker |-> FALSE]

\* lines 192-200
ObsResult(len) ==
    [role |-> "user", content |-> <<"Observation:\n", "obs_str">>,
     payload |-> Truncate(len)]

(***************************************************************************)
(* The model keeps the text of the turns of the current step only: when a  *)
(* step appends its assistant turn, the texts of the earlier turns are     *)
(* elided (their roles and their order are kept).  The code never reads    *)
(* an earlier turn; it only passes the list to the provider.               *)
(***************************************************************************)
Elide(h) == [k \in 1..Len(h) |-> Turn(h[k].role, << >>)]

(***************************************************************************)
(* Inputs                                                                  *)
(***************************************************************************)
\* lines typed at the prompt
Lines == {"exit", "EXIT", "What causes Marfan syndrome?"}

\* `question` before line 124 has run
NoQuestion == "<unbound>"

\* Lower comparing the line as it was typed
Lower_identity(line) == line

\* str.lower on the lines above
Lower(line) == IF line = "EXIT" THEN "exit" ELSE line

\* texts the provider answers with
Responses ==
    { <<"Thought">>,
      <<"Thought", MARK, "Thought">>,
      <<"Thought", MARK, RB, "Thought", LB>>,
      <<"Thought", MARK, LB, "junk", RB>>,
      <<"Thought", MARK, "Thought", LB, "tn=get_entity", "arguments=", LB,
        "entity_id", RB, RB, "Thought", RB>>,
      <<"Thought", MARK, WS, LB, "tn=finish", "answer", RB, WS>>,
      <<MARK, LB, "tn=finish", RB>>,
      <<MARK, LB, "tn=finish", "arguments=", LB, "entity_id", RB, RB>>,
      <<"Thought", MARK, LB, "tn=does_not_exist", "arguments=", LB, RB, RB>>,
      <<MARK, LB, "answer", RB>>,
      <<MARK, LB, "tn=7", RB>>,
      <<MARK, LB, "tn=[]", RB>>,
      <<"Thought", MARK, LB, "tn=get_entity", "arguments=", LB, "entity_id",
        RB, RB, "Thought">>,
      <<MARK, LB, "tn=get_entity", "arguments=", LB, "bogus", RB, RB>>,
      <<MARK, LB, "tn=get_associations", "arguments=", "scalar", RB>>,
      <<MARK, LB, "tn=get_associations", RB>>,
      NoneText }

NoResponse == << >>

\* lengths of json.dumps(observation, indent=2)
ResultLens == {TRUNCATE_AT - 1, TRUNCATE_AT, TRUNCATE_AT + 1}

\* lengths of the message of an HTTP failure (status and response body)
ErrorLens == {40, TRUNCATE_AT + 1}

\* how an awaited tool ends: MonarchClient.get returns response.json(),
\* raises Exception for an HTTP status error, lets a transport error of
\* httpx through, and lets the json.JSONDecodeError of response.json()
\* through when the body is not JSON
ToolOutcomes ==
    [kind : {"ok"}, exc : {"none"}, text : {"obs_str"}, chars : ResultLens]
    \cup [kind : {"raise"}, exc : {"Exception"},
          text : {"HTTP error occurred: 500 - Internal Server Error"},
          chars : ErrorLens]
    \cup {[kind |-> "raise", exc |-> "ConnectError",
           text |-> "All connection attempts failed", chars |-> 30],
          [kind |-> "raise", exc |-> "JSONDecodeError",
           text |-> "Expecting value: line 1 column 1 (char 0)",
           chars |-> 41]}

\* no tool was called in the current step
NoOutcome == [kind |-> "none", exc |-> "none", text |-> "", chars |-> 0]

\* tool_callable(api_client, **arguments) does not bind (line 189)
BindError == [kind |-> "raise", exc |-> "TypeError",
              text |-> "got an unexpected keyword argument", chars |-> 34]

(***************************************************************************)
(* call_openai_with_retry (lines 57-78)                                    *)
(***************************************************************************)
\* BackoffNext with the factor 2 in place of 1.5
BackoffNext_doubling(w) == Min(w * 2, WAIT_CAP * Scale)

\* line 77, on waits in 1/Scale s
BackoffNext(w) == Min((w * 3) \div 2, WAIT_CAP * Scale)

\* BeginRequest with wait_time kept from the request before
BeginRequest_keepsWait(mr, iw) ==
    /\ rpc' = "calling"
    /\ max_retries' = mr
    /\ initial_wait' = iw
    /\ attempt' = 0
    /\ wait_time' = wait_time
    /\ slept' = << >>
    /\ calls' = 0
    /\ response' = NoResponse

\* entry of the function: line 65 and the first iteration of line 66
BeginRequest(mr, iw) ==
    /\ rpc' = "calling"
    /\ max_retries' = mr
    /\ initial_wait' = iw
    /\ attempt' = 0
    /\ wait_time' = iw * Scale
    /\ slept' = << >>
    /\ calls' = 0
    /\ response' = NoResponse

RetryIdle ==
    /\ rpc' = "idle"
    /\ UNCHANGED <<max_retries, initial_wait, attempt, wait_time, slept,
                   calls, response>>

\* line 68 returns
ProviderReturns(text) ==
    /\ rpc = "calling"
    /\ UNCHANGED <<questions, question, serverVars, batchVars, parserVars,
                   queryVars, chatVars, routeVars>>
    /\ attempt < max_retries
    /\ calls' = calls + 1
    /\ rpc' = "returned"
    /\ response' = text
    /\ UNCHANGED <<max_retries, initial_wait, attempt, wait_time, slept>>
    /\ UNCHANGED <<pc, api_client, closes, history, i, requests, raised,
                   tool_outcome, sigint, report>>

\* ProviderRateLimited with line 70 comparing against max_retries
ProviderRateLimited_lateRaise ==
    /\ rpc = "calling"
    /\ UNCHANGED <<questions, question, serverVars, batchVars, parserVars,
                   queryVars, chatVars, routeVars>>
    /\ attempt < max_retries
    /\ calls' = calls + 1
    /\ IF attempt = max_retries
       THEN rpc' = "raised" /\ raised' = "RateLimitError"
       ELSE rpc' = "sleeping" /\ raised' = raised
    /\ UNCHANGED <<max_retries, initial_wait, attempt, wait_time, slept,
                   response>>
    /\ UNCHANGED <<pc, api_client, closes, history, i, requests,
                   tool_outcome, sigint, report>>

\* line 68 raises openai.RateLimitError: lines 69-71
ProviderRateLimited ==
    /\ rpc = "calling"
    /\ UNCHANGED <<questions, question, serverVars, batchVars, parserVars,
                   queryVars, chatVars, routeVars>>
    /\ attempt < max_retries
    /\ calls' = calls + 1
    /\ IF attempt = max_retries - 1
       THEN rpc' = "raised" /\ raised' = "RateLimitError"
       ELSE rpc' = "sleeping" /\ raised' = raised
    /\ UNCHANGED <<max_retries, initial_wait, attempt, wait_time, slept,
                   response>>
    /\ UNCHANGED <<pc, api_client, closes, history, i, requests,
                   tool_outcome, sigint, report>>

\* ProviderFails with line 69 catching every exception
ProviderFails_caught ==
    /\ rpc = "calling"
    /\ UNCHANGED <<questions, question, serverVars, batchVars, parserVars,
                   queryVars, chatVars, routeVars>>
    /\ attempt < max_retries
    /\ calls' = calls + 1
    /\ raised' = "APIError"
    /\ rpc' = IF attempt = max_retries - 1 THEN "raised" ELSE "sleeping"
    /\ UNCHANGED <<max_retries, initial_wait, attempt, wait_time, slept,
                   response>>
    /\ UNCHANGED <<pc, api_client, closes, history, i, requests,
                   tool_outcome, sigint, report>>

\* line 68 raises anything else: no except clause matches
ProviderFails ==
    /\ rpc = "calling"
    /\ UNCHANGED <<questions, question, serverVars, batchVars, parserVars,
                   queryVars, chatVars, routeVars>>
    /\ attempt < max_retries
    /\ calls' = calls + 1
    /\ rpc' = "raised"
    /\ raised' = "APIError"
    /\ UNCHANGED <<max_retries, initial_wait, attempt, wait_time, slept,
                   response>>
    /\ UNCHANGED <<pc, api_client, closes, history, i, requests,
                   tool_outcome, sigint, report>>

\* Sleep with the cap applied to the wait it sleeps
Sleep_capped ==
    /\ rpc = "sleeping"
    /\ UNCHANGED <<questions, question, serverVars, batchVars, parserVars,
                   queryVars, chatVars, routeVars>>
    /\ slept' = Append(slept, Min(wait_time, WAIT_CAP * Scale))
    /\ wait_time' = BackoffNext(wait_time)
    /\ attempt' = attempt + 1
    /\ rpc' = "calling"
    /\ UNCHANGED <<max_retries, initial_wait, calls, response>>
    /\ UNCHANGED <<pc, api_client, closes, history, i, requests, raised,
                   tool_outcome, sigint, report>>

\* lines 72-77 and the next iteration of line 66
Sleep ==
    /\ rpc = "sleeping"
    /\ UNCHANGED <<questions, question, serverVars, batchVars, parserVars,
                   queryVars, chatVars, routeVars>>
    /\ slept' = Append(slept, wait_time)
    /\ wait_time' = BackoffNext(wait_time)
    /\ attempt' = attempt + 1
    /\ rpc' = "calling"
    /\ UNCHANGED <<max_retries, initial_wait, calls, response>>
    /\ UNCHANGED <<pc, api_client, closes, history, i, requests, raised,
                   tool_outcome, sigint, report>>

\* line 78: the loop of line 66 ran out (only when max_retries < 1)
MaxRetriesExceeded ==
    /\ rpc = "calling"
    /\ UNCHANGED <<questions, question, serverVars, batchVars, parserVars,
                   queryVars, chatVars, routeVars>>
    /\ attempt >= max_retries
    /\ rpc' = "raised"
    /\ raised' = "RuntimeError"
    /\ UNCHANGED <<max_retries, initial_wait, attempt, wait_time, slept,
                   calls, response>>
    /\ UNCHANGED <<pc, api_client, closes, history, i, requests,
                   tool_outcome, sigint, report>>

(***************************************************************************)
(* main() (lines 81-227)                                                   *)
(***************************************************************************)
WARNING == <<"Warning: Agent reached maximum steps without finishing.">>

\* the finally clause, lines 225-227, entered with exception exc in flight
Finally(exc) ==
    /\ api_client' = "closed"
    /\ closes' = closes + 1
    /\ raised' = exc
    /\ pc' = "done"
    /\ RetryIdle
    /\ UNCHANGED <<history, i, requests, tool_outcome, sigint, report>>

\* lines 85-90
CheckKey(has_key) ==
    /\ pc = "start"
    /\ UNCHANGED <<questions, question, serverVars, batchVars, parserVars,
                   queryVars, chatVars, routeVars>>
    /\ IF has_key
       THEN api_client' = "open" /\ pc' = "startup" /\ raised' = raised
       ELSE api_client' = api_client /\ pc' = "done" /\ raised' = "SystemExit"
    /\ UNCHANGED <<closes, history, i, requests, tool_outcome, sigint,
                   report>>
    /\ UNCHANGED retryVars

\* lines 93-120: they stand before the try statement of line 122
BuildPrompt(ok) ==
    /\ pc = "startup"
    /\ UNCHANGED <<questions, question, serverVars, batchVars, parserVars,
                   queryVars, chatVars, routeVars>>
    /\ IF ok
       THEN pc' = "input" /\ raised' = raised
       ELSE pc' = "done" /\ raised' = "StartupError"
    /\ UNCHANGED <<api_client, closes, history, i, requests, tool_outcome,
                   sigint, report>>
    /\ UNCHANGED retryVars

\* ReadQuestion with line 128 appending the question to the old list
ReadQuestion_keepsHistory(line) ==
    /\ pc = "input"
    /\ UNCHANGED <<serverVars, batchVars, parserVars, queryVars, chatVars,
                   routeVars>>
    /\ question' = line
    /\ IF Lower(line) = "exit"
       THEN Finally(raised) /\ questions' = questions
       ELSE /\ questions < MaxQuestions
            /\ questions' = questions + 1
            /\ history' = IF history = << >>
                          THEN <<Turn("system", <<"system_prompt">>),
                                 Turn("user", <<line>>)>>
                          ELSE Append(history, Turn("user", <<line>>))
            /\ i' = 0
            /\ requests' = 1
            /\ BeginRequest(DEFAULT_MAX_RETRIES, DEFAULT_INITIAL_WAIT)
            /\ pc' = "completion"
            /\ report' = << >>
            /\ tool_outcome' = NoOutcome
            /\ UNCHANGED <<api_client, closes, raised, sigint>>

\* lines 124-136: a line is read; a question starts step 1
ReadQuestion(line) ==
    /\ pc = "input"
    /\ UNCHANGED <<serverVars, batchVars, parserVars, queryVars, chatVars,
                   routeVars>>
    /\ question' = line
    /\ IF Lower(line) = "exit"
       THEN Finally(raised) /\ questions' = questions
       ELSE /\ questions < MaxQuestions
            /\ questions' = questions + 1
            /\ history' = <<Turn("system", <<"system_prompt">>),
                            Turn("user", <<line>>)>>
            /\ i' = 0
            /\ requests' = 1
            /\ BeginRequest(DEFAULT_MAX_RETRIES, DEFAULT_INITIAL_WAIT)
            /\ pc' = "completion"
            /\ report' = << >>
            /\ tool_outcome' = NoOutcome
            /\ UNCHANGED <<api_client, closes, raised, sigint>>

\* EndStep with the range of line 133 one too long
EndStep_oneMore(h) ==
    /\ history' = h
    /\ IF i < MAX_STEPS
       THEN /\ i' = i + 1
            /\ requests' = requests + 1
            /\ BeginRequest(DEFAULT_MAX_RETRIES, DEFAULT_INITIAL_WAIT)
            /\ pc' = "completion"
            /\ report' = report
       ELSE /\ i' = i
            /\ requests' = requests
            /\ RetryIdle
            /\ pc' = "input"
            /\ report' = WARNING
    /\ UNCHANGED <<api_client, closes, raised, sigint>>

\* EndStep starting the for statement again when its range is used up
EndStep_startsOver(h) ==
    /\ history' = h
    /\ IF i + 1 < MAX_STEPS
       THEN /\ i' = i + 1
            /\ requests' = requests + 1
       ELSE /\ i' = 0
            /\ requests' = 1
    /\ BeginRequest(DEFAULT_MAX_RETRIES, DEFAULT_INITIAL_WAIT)
    /\ pc' = "completion"
    /\ report' = report
    /\ UNCHANGED <<api_client, closes, raised, sigint>>

\* the end of one iteration of line 133 after the observation is appended:
\* the next iteration's request, or the else clause of lines 220-221
EndStep(h) ==
    /\ history' = h
    /\ IF i + 1 < MAX_STEPS
       THEN /\ i' = i + 1
            /\ requests' = requests + 1
            /\ BeginRequest(DEFAULT_MAX_RETRIES, DEFAULT_INITIAL_WAIT)
            /\ pc' = "completion"
            /\ report' = report
       ELSE /\ i' = i
            /\ requests' = requests
            /\ RetryIdle
            /\ pc' = "input"
            /\ report' = WARNING
    /\ UNCHANGED <<api_client, closes, raised, sigint>>

\* Classify on the texts the provider answers with, computed once
KindOf == [text \in Responses |-> Classify(text)]

\* ActionOf on the same texts, computed once
ParsedAction == [text \in Responses |-> ActionOf(text)]

\* the observation of a response that awaits no tool and does not finish
ObsOf(kind, response_text) ==
    CASE kind = "type_error" ->
             ObsError("argument of type 'NoneType' is not iterable", 43)
      [] kind = "no_action" -> ObsNoAction
      [] kind = "invalid_json" -> ObsInvalidJson
      [] kind = "unhashable" -> ObsError("unhashable type: 'list'", 23)
      [] kind = "unknown_tool" ->
             ObsInvalidTool(ParsedAction[response_text].tool_name)
      [] OTHER -> ObsError(BindError.text, BindError.chars)

\* FinishStep without the break of line 172: the loop goes on
FinishStep_noBreak(h, action) == EndStep(h)

\* lines 169-172: the break leaves the for statement, past its else clause
FinishStep(h, action) ==
    /\ history' = h
    /\ report' = <<"Final Answer:",
                   IF action.has_answer THEN "answer"
                   ELSE "I have finished the task.">>
    /\ pc' = "input"
    /\ RetryIdle
    /\ UNCHANGED <<api_client, closes, i, requests, raised, sigint>>

\* Step starting the next request while the tool of this step is awaited
Step_overlapping ==
    /\ pc = "completion"
    /\ UNCHANGED <<questions, question, serverVars, batchVars, parserVars,
                   queryVars, chatVars, routeVars>>
    /\ rpc = "returned"
    /\ LET h == Append(Elide(history), Turn("assistant", response))
           kind == KindOf[response]
       IN  IF kind = "finish"
           THEN /\ FinishStep(h, ParsedAction[response])
                /\ tool_outcome' = NoOutcome
           ELSE IF kind = "invoke"
           THEN /\ history' = h
                /\ pc' = "tool"
                /\ tool_outcome' = NoOutcome
                /\ BeginRequest(DEFAULT_MAX_RETRIES, DEFAULT_INITIAL_WAIT)
                /\ UNCHANGED <<api_client, closes, i, requests, raised,
                               sigint, report>>
           ELSE /\ EndStep(Append(h, ObsOf(kind, response)))
                /\ tool_outcome' = IF kind = "bad_arguments" THEN BindError
                                   ELSE NoOutcome

\* lines 137-189 and 204-219: the response is appended and acted on
Step ==
    /\ pc = "completion"
    /\ UNCHANGED <<questions, question, serverVars, batchVars, parserVars,
                   queryVars, chatVars, routeVars>>
    /\ rpc = "returned"
    /\ LET h == Append(Elide(history), Turn("assistant", response))
           kind == KindOf[response]
       IN  IF kind = "finish"
           THEN /\ FinishStep(h, ParsedAction[response])
                /\ tool_outcome' = NoOutcome
           ELSE IF kind = "invoke"
           THEN /\ history' = h
                /\ pc' = "tool"
                /\ tool_outcome' = NoOutcome
                /\ RetryIdle
                /\ UNCHANGED <<api_client, closes, i, requests, raised,
                               sigint, report>>
           ELSE /\ EndStep(Append(h, ObsOf(kind, response)))
                /\ tool_outcome' = IF kind = "bad_arguments" THEN BindError
                                   ELSE NoOutcome

\* the observation lines 189-219 append when the awaited tool ends with o
ObsOfTool(o) ==
    IF o.kind = "ok" THEN ObsResult(o.chars)
    ELSE IF o.exc = "JSONDecodeError" THEN ObsInvalidJson
    ELSE ObsError(o.text, o.chars)

\* ToolReturns appending nothing when the tool raised
ToolReturns_silentError(o) ==
    /\ pc = "tool"
    /\ UNCHANGED <<questions, question, serverVars, batchVars, parserVars,
                   queryVars, chatVars, routeVars>>
    /\ sigint = "none"
    /\ tool_outcome' = o
    /\ EndStep(IF o.kind = "ok" THEN Append(history, ObsOfTool(o))
               ELSE history)

\* line 189 resumes: lines 192-219.  A task that was cancelled while it
\* awaits does not resume with the result: see DeliverCancel
ToolReturns(o) ==
    /\ pc = "tool"
    /\ UNCHANGED <<questions, question, serverVars, batchVars, parserVars,
                   queryVars, chatVars, routeVars>>
    /\ sigint = "none"
    /\ tool_outcome' = o
    /\ EndStep(Append(history, ObsOfTool(o)))

\* Propagate with the error reported and the next question awaited
Propagate_nextQuestion ==
    /\ pc = "completion"
    /\ UNCHANGED <<questions, question, serverVars, batchVars, parserVars,
                   queryVars, chatVars, routeVars>>
    /\ rpc = "raised"
    /\ pc' = "input"
    /\ RetryIdle
    /\ UNCHANGED <<api_client, closes, history, i, requests, raised,
                   tool_outcome, sigint, report>>

\* call_openai_with_retry raised: line 136 is in no inner try statement
Propagate ==
    /\ pc = "completion"
    /\ UNCHANGED <<questions, question, serverVars, batchVars, parserVars,
                   queryVars, chatVars, routeVars>>
    /\ rpc = "raised"
    /\ Finally(raised)

(***************************************************************************)
(* Interruption (SIGINT).  main() runs as the task of asyncio.run (line    *)
(* 231).  Either KeyboardInterrupt is raised where the program stands      *)
(* (the default handler; the handler of asyncio.run on a second SIGINT)    *)
(* and lines 223-227 run, or the handler of asyncio.run cancels the main   *)
(* task: the blocking call in progress goes on, and CancelledError is      *)
(* raised at the next suspension point, the await of line 189.  Which of   *)
(* the two happens depends on the Python version that runs the program.    *)
(***************************************************************************)
InLoop == pc \in {"input", "completion", "tool"}

KeyboardInterrupt ==
    /\ InLoop
    /\ UNCHANGED <<questions, question, serverVars, batchVars, parserVars,
                   queryVars, chatVars, routeVars>>
    /\ Finally("KeyboardInterrupt")

SigintCancel ==
    /\ InLoop
    /\ UNCHANGED <<questions, question, serverVars, batchVars, parserVars,
                   queryVars, chatVars, routeVars>>
    /\ sigint = "none"
    /\ sigint' = "cancel_pending"
    /\ UNCHANGED <<pc, api_client, closes, history, i, requests, raised,
                   tool_outcome, report>>
    /\ UNCHANGED retryVars

DeliverCancel ==
    /\ pc = "tool"
    /\ UNCHANGED <<questions, question, serverVars, batchVars, parserVars,
                   queryVars, chatVars, routeVars>>
    /\ sigint = "cancel_pending"
    /\ Finally("CancelledError")

(***************************************************************************)
(* The servers: api_server.py (REST) and server.py (MCP).  Both keep the   *)
(* client in the module global _client, set by lifespan() and read by      *)
(* get_client().  The framework enters lifespan() once, when the process   *)
(* starts serving, and leaves it once, when the process stops.  Requests   *)
(* run concurrently: each handler (REST) or tool wrapper (MCP) calls       *)
(* get_client() and then awaits the query service.                         *)
(***************************************************************************)
\* requests one run of a server is sent
MaxHandlers == 3

Handlers == 1..MaxHandlers

\* a request that has not arrived
NoHandler == [at |-> "idle", client |-> "None", status |-> "none"]

\* the module before lifespan() is entered
ServerDown ==
    /\ lifespan_pc = "before"
    /\ shared_client = "None"
    /\ created = 0
    /\ server_closes = 0
    /\ handlers = [h \in Handlers |-> NoHandler]

\* how a request ends when an exception leaves the body of its handler:
\* the REST handlers turn it into HTTPException(status_code=500), the MCP
\* wrapper lets it through
Failed(client) ==
    [at |-> "done", client |-> client,
     status |-> IF server = "rest" THEN "500" ELSE "raised"]

\* lifespan() up to its yield
LifespanStart ==
    /\ lifespan_pc = "before"
    /\ shared_client' = "client"
    /\ created' = created + 1
    /\ lifespan_pc' = "serving"
    /\ UNCHANGED <<server, server_closes, handlers>>
    /\ UNCHANGED <<agentVars, batchVars, parserVars, queryVars,
                   chatVars, routeVars>>

\* LifespanStop leaving the closed client in _client
LifespanStop_keepsClient ==
    /\ lifespan_pc = "serving"
    /\ server_closes' = server_closes + 1
    /\ shared_client' = shared_client
    /\ lifespan_pc' = "after"
    /\ UNCHANGED <<server, created, handlers>>
    /\ UNCHANGED <<agentVars, batchVars, parserVars, queryVars,
                   chatVars, routeVars>>

\* the finally clause of lifespan()
LifespanStop ==
    /\ lifespan_pc = "serving"
    /\ IF shared_client # "None"
       THEN server_closes' = server_closes + 1 /\ shared_client' = "None"
       ELSE UNCHANGED <<server_closes, shared_client>>
    /\ lifespan_pc' = "after"
    /\ UNCHANGED <<server, created, handlers>>
    /\ UNCHANGED <<agentVars, batchVars, parserVars, queryVars,
                   chatVars, routeVars>>

\* a request arrives: client = get_client(), then the await of the tool
HandlerBegin(h) ==
    /\ handlers[h].at = "idle"
    /\ handlers' = [handlers EXCEPT ![h] =
                      IF shared_client = "None" THEN Failed("None")
                      ELSE [at |-> "awaiting", client |-> shared_client,
                            status |-> "none"]]
    /\ UNCHANGED <<server, lifespan_pc, shared_client, created,
                   server_closes>>
    /\ UNCHANGED <<agentVars, batchVars, parserVars, queryVars,
                   chatVars, routeVars>>

\* the awaited tool returns (ok) or raises
HandlerEnd(h, ok) ==
    /\ handlers[h].at = "awaiting"
    /\ handlers' = [handlers EXCEPT ![h] =
                      IF ok THEN [at |-> "done", client |-> @.client,
                                  status |-> "ok"]
                      ELSE Failed(@.client)]
    /\ UNCHANGED <<server, lifespan_pc, shared_client, created,
                   server_closes>>
    /\ UNCHANGED <<agentVars, batchVars, parserVars, queryVars,
                   chatVars, routeVars>>

(***************************************************************************)
(* EntityApi.get_entities_batch (tools/entity.py)                          *)
(***************************************************************************)
\* longest list of ids the batch specification passes
MaxBatch == 3

\* the ids the lists are made of
EntityIds == {"MONDO:0007947", "HGNC:3603"}

\* the lists of at most MaxBatch ids
IdLists == UNION {[1..n -> EntityIds] : n \in 0..MaxBatch}

\* how client.get ends: see ToolOutcomes; "cancel" is the CancelledError of
\* a cancelled task, which is not an Exception
LookupOutcomes ==
    {[kind |-> "ok", exc |-> "none", text |-> ""],
     [kind |-> "raise", exc |-> "Exception",
      text |-> "HTTP error occurred: 404 - Not Found"],
     [kind |-> "raise", exc |-> "ConnectError",
      text |-> "All connection attempts failed"],
     [kind |-> "cancel", exc |-> "CancelledError", text |-> ""]}

NoLookup == [kind |-> "none", exc |-> "none", text |-> ""]

\* get_entities_batch is not running
BatchIdle ==
    /\ entity_ids = << >>
    /\ results = << >>
    /\ lookups = << >>
    /\ batch_pc = "idle"
    /\ lookup_outcome = NoLookup

\* what one iteration appends to results: the JSON that the lookup of
\* entity_id returned (kind "entity", named here by the id it was asked
\* for), or {"id": entity_id, "error": str(e)}
BatchEntry(entity_id, o) ==
    IF o.kind = "ok"
    THEN [kind |-> "entity", id |-> entity_id, error |-> ""]
    ELSE [kind |-> "error", id |-> entity_id, error |-> o.text]

\* Lookup without the try statement: the exception leaves the function
Lookup_unguarded(o) ==
    /\ batch_pc = "loop"
    /\ Len(results) < Len(entity_ids)
    /\ lookups' = Append(lookups, entity_ids[Len(results) + 1])
    /\ lookup_outcome' = o
    /\ IF o.kind = "ok"
       THEN /\ results' = Append(results,
                             BatchEntry(entity_ids[Len(results) + 1], o))
            /\ batch_pc' = batch_pc
       ELSE /\ results' = results
            /\ batch_pc' = "raised"
    /\ UNCHANGED entity_ids
    /\ UNCHANGED <<agentVars, serverVars, parserVars, queryVars,
                   chatVars, routeVars>>

\* one iteration of the for statement: client.get ends with o
Lookup(o) ==
    /\ batch_pc = "loop"
    /\ Len(results) < Len(entity_ids)
    /\ lookups' = Append(lookups, entity_ids[Len(results) + 1])
    /\ lookup_outcome' = o
    /\ IF o.kind = "cancel"
       THEN /\ results' = results
            /\ batch_pc' = "raised"
       ELSE /\ results' = Append(results,
                             BatchEntry(entity_ids[Len(results) + 1], o))
            /\ batch_pc' = batch_pc
    /\ UNCHANGED entity_ids
    /\ UNCHANGED <<agentVars, serverVars, parserVars, queryVars,
                   chatVars, routeVars>>

\* the for statement is exhausted: return results
BatchReturn ==
    /\ batch_pc = "loop"
    /\ Len(results) = Len(entity_ids)
    /\ batch_pc' = "returned"
    /\ UNCHANGED <<entity_ids, results, lookups, lookup_outcome>>
    /\ UNCHANGED <<agentVars, serverVars, parserVars, queryVars,
                   chatVars, routeVars>>

(***************************************************************************)
(* Lines 144-166 applied to one response that is put together from Thought *)
(* prose, the marker, filler, an action object and trailing prose.         *)
(***************************************************************************)
\* longest run of prose tokens in each place
MaxProse == 2

\* prose before the marker
ThoughtTokens == {"Thought", MARK, LB}

\* prose after the marker, before and after the object
ProseTokens == {"blah", WS, LB, RB}

ProseOf(tokens) == UNION {[1..n -> tokens] : n \in 0..MaxProse}

\* well-formed action objects
ActionObjects ==
    { <<LB, "tn=get_entity", "arguments=", LB, "entity_id", RB, RB>>,
      <<LB, WS, "tn=finish", "answer", RB>> }

NoParts == [thought |-> << >>, marker |-> << >>, filler |-> << >>,
            object |-> << >>, trailing |-> << >>]

NotParsed == [done |-> FALSE, action_json_str |-> << >>, ok |-> FALSE,
              action |-> EmptyAction]

\* no response is being parsed on its own
ParserIdle ==
    /\ parts = NoParts
    /\ parsed = NotParsed

\* response_text
TextOf(p) == p.thought \o p.marker \o p.filler \o p.object \o p.trailing

\* lines 144-166 on TextOf(parts)
ParseResponse ==
    /\ ~parsed.done
    /\ LET action_json_str == ExtractActionJson(TextOf(parts))
           r == JsonLoads(action_json_str)
       IN  parsed' = [done |-> TRUE, action_json_str |-> action_json_str,
                      ok |-> action_json_str # << >> /\ r.ok,
                      action |-> r.val]
    /\ UNCHANGED parts
    /\ UNCHANGED <<agentVars, serverVars, batchVars, queryVars,
                   chatVars, routeVars>>

(***************************************************************************)
(* The query tools that forward optional filters (tools/search.py,         *)
(* tools/entity.py).  A value is written as its Python literal.            *)
(***************************************************************************)
\* a keyword the caller did not pass
Unset == "<unset>"

PyNone == "None"

QueryTools == {"search", "get_associations",
               "get_entity_associations_by_category"}

\* what a caller passes for a filter, a flag, limit and offset
FilterArgs == {Unset, "HP:0001166"}

FlagArgs == {Unset, "False", "True"}

LimitArgs == {Unset, PyNone, "5"}

OffsetArgs == {Unset, "0", "10"}

\* the calls of each tool
KwargsOf(tool) ==
    CASE tool = "search" ->
           [q : {Unset, "marfan"}, category : FilterArgs,
            in_taxon_label : FilterArgs, limit : LimitArgs,
            offset : OffsetArgs]
      [] tool = "get_associations" ->
           [category : FilterArgs, subject : FilterArgs,
            predicate : FilterArgs, object : FilterArgs,
            entity : FilterArgs, direct : FlagArgs, compact : FlagArgs,
            limit : LimitArgs, offset : OffsetArgs]
      [] tool = "get_entity_associations_by_category" ->
           [entity_id : {"MONDO:0007947"},
            category : {"biolink:DiseaseToPhenotypicFeatureAssociation"},
            traverse_orthologs : FlagArgs, direct : FlagArgs,
            query : FilterArgs, sort : FilterArgs,
            facet_fields : FilterArgs, facet_queries : FilterArgs,
            filter_queries : FilterArgs, limit : LimitArgs,
            offset : OffsetArgs]

\* the defaults of the signatures
DefaultsOf(tool) ==
    CASE tool = "search" ->
           [q |-> "*:*", category |-> PyNone, in_taxon_label |-> PyNone,
            limit |-> "20", offset |-> "0"]
      [] tool = "get_associations" ->
           [category |-> PyNone, subject |-> PyNone, predicate |-> PyNone,
            object |-> PyNone, entity |-> PyNone, direct |-> "False",
            compact |-> "False", limit |-> "20", offset |-> "0"]
      [] tool = "get_entity_associations_by_category" ->
           [entity_id |-> Unset, category |-> Unset,
            traverse_orthologs |-> "False", direct |-> "False",
            query |-> PyNone, sort |-> PyNone, facet_fields |-> PyNone,
            facet_queries |-> PyNone, filter_queries |-> PyNone,
            limit |-> "20", offset |-> "0"]

\* the parameters of a call: what was passed, else the default
BindKwargs(tool, kwargs) ==
    [k \in DOMAIN DefaultsOf(tool) |->
        IF kwargs[k] = Unset THEN DefaultsOf(tool)[k] ELSE kwargs[k]]

\* the keys of the dict literal `params`
ParamKeys(tool) ==
    IF tool = "get_entity_associations_by_category"
    THEN DOMAIN DefaultsOf(tool) \ {"entity_id", "category"}
    ELSE DOMAIN DefaultsOf(tool)

\* the first argument of client.get
EndpointOf(tool, bound) ==
    CASE tool = "search" -> <<"search">>
      [] tool = "get_associations" -> <<"association">>
      [] tool = "get_entity_associations_by_category" ->
           <<"entity", bound.entity_id, bound.category>>

\* bool(v)
Truthy(v) == v \notin {PyNone, "False", "0", ""}

\* DropNone with the comprehension testing `if v`
DropNone_falsy(params) ==
    [k \in {key \in DOMAIN params : Truthy(params[key])} |-> params[k]]

\* {k: v for k, v in params.items() if v is not None}
DropNone(params) ==
    [k \in {key \in DOMAIN params : params[key] # PyNone} |-> params[k]]

NoCall == [tool |-> "none", kwargs |-> [none |-> Unset]]

\* no query tool is being called
QueryIdle ==
    /\ tool_call = NoCall
    /\ query_pc = "idle"
    /\ gets = << >>

\* the body of the tool: the dict literal, the comprehension, client.get
QueryTool ==
    /\ query_pc = "called"
    /\ LET bound == BindKwargs(tool_call.tool, tool_call.kwargs)
           params == [k \in ParamKeys(tool_call.tool) |-> bound[k]]
       IN  gets' = Append(gets, [endpoint |-> EndpointOf(tool_call.tool,
                                                         bound),
                                 params |-> DropNone(params)])
    /\ query_pc' = "returned"
    /\ UNCHANGED tool_call
    /\ UNCHANGED <<agentVars, serverVars, batchVars, parserVars, chatVars,
                   routeVars>>

(***************************************************************************)
(* POST /chat (api_server.py, lines 552-666)                               *)
(***************************************************************************)
\* history_to_use[-10:]
HISTORY_WINDOW == 10

\* longest history a chat request carries
MaxHistory == 12

UNAVAILABLE == "Chat service unavailable - OpenAI API key not configured"

\* history entries the model is to see and entries it is not to see
PlainEntry(k) ==
    [role |-> IF k % 2 = 1 THEN "user" ELSE "assistant",
     content |-> <<"turn", k>>]

OddEntries ==
    { [role |-> "system", content |-> <<"injected", 0>>],
      [role |-> "tool", content |-> <<"tool", 0>>],
      [role |-> "user", content |-> << >>],
      [content |-> <<"no role", 0>>] }

\* histories of n entries of which at most two are odd
HistoriesOf(n) ==
    LET plain == [k \in 1..n |-> PlainEntry(k)]
    IN  {plain}
        \cup {[plain EXCEPT ![p] = e] : p \in 1..n, e \in OddEntries}
        \cup {[plain EXCEPT ![p] = e, ![n] = f] :
                 p \in 1..(n - 1), e \in OddEntries, f \in OddEntries}

NotGiven == [given |-> FALSE, entries |-> << >>]

Given(entries) == [given |-> TRUE, entries |-> entries]

Histories ==
    {NotGiven} \cup {Given(h) : h \in UNION {HistoriesOf(n) : n \in 0..MaxHistory}}

ConversationHistories ==
    { NotGiven,
      Given(<<[role |-> "system", content |-> <<"old injected", 0>>],
              [role |-> "assistant", content |-> <<"old", 0>>]>>) }

ChatRequests ==
    [has_key : BOOLEAN, message : {<<"Why this match?", 0>>},
     history : Histories, conversation_history : ConversationHistories]

\* bool(x) of an Optional[List[dict]]
TruthyList(h) == h.given /\ h.entries # << >>

\* request.history or request.conversation_history
HistoryToUse(request) ==
    IF TruthyList(request.history) THEN request.history
    ELSE request.conversation_history

\* seq[-n:]
LastN(seq, n) ==
    IF Len(seq) <= n THEN seq ELSE SubSeq(seq, Len(seq) - n + 1, Len(seq))

\* msg.get(key, default)
DictGet(msg, key, default) ==
    IF key \in DOMAIN msg THEN msg[key] ELSE default

\* ForwardedHistory taking every entry with content
ForwardedHistory_anyRole(entries) ==
    LET Step1(acc, msg) ==
            LET role == DictGet(msg, "role", "user")
                content == DictGet(msg, "content", << >>)
            IN  IF content # << >>
                THEN Append(acc, [role |-> role, content |-> content])
                ELSE acc
        F[k \in 0..Len(entries)] ==
            IF k = 0 THEN << >> ELSE Step1(F[k - 1], entries[k])
    IN  F[Len(entries)]

\* lines 636-642: the loop over the entries it is given
ForwardedHistory(entries) ==
    LET Step1(acc, msg) ==
            LET role == DictGet(msg, "role", "user")
                content == DictGet(msg, "content", << >>)
            IN  IF role \in {"user", "assistant"} /\ content # << >>
                THEN Append(acc, [role |-> role, content |-> content])
                ELSE acc
        F[k \in 0..Len(entries)] ==
            IF k = 0 THEN << >> ELSE Step1(F[k - 1], entries[k])
    IN  F[Len(entries)]

SystemMessage == [role |-> "system", content |-> <<"guidelines", 0>>]

\* lines 607-645: the list given to chat.completions.create
BuildMessages(request) ==
    LET history_to_use == HistoryToUse(request)
    IN  <<SystemMessage>>
        \o (IF TruthyList(history_to_use)
            THEN ForwardedHistory(LastN(history_to_use.entries,
                                        HISTORY_WINDOW))
            ELSE << >>)
        \o <<[role |-> "user", content |-> request.message]>>

\* str(e) of the HTTPException of line 570: "503: <detail>" where
\* HTTPException defines __str__, the empty string where it does not
StrOfUnavailable ==
    {"503: Chat service unavailable - OpenAI API key not configured", ""}

\* lines 661-666: the except clauses, tried in order, on an exception
\* raised in the try block; HTTPException is an Exception
ChatExcept(exc) ==
    IF exc.type = "APIError"
    THEN [status |-> 502, detail |-> "AI service error: " \o exc.str]
    ELSE [status |-> 500, detail |-> exc.str]

NoChatRequest == [has_key |-> FALSE, message |-> << >>, history |-> NotGiven,
                  conversation_history |-> NotGiven]

NoChatResponse == [status |-> 0, detail |-> ""]

\* no chat request is being served
ChatIdle ==
    /\ chat_request = NoChatRequest
    /\ chat_pc = "idle"
    /\ messages = << >>
    /\ provider_calls = 0
    /\ chat_response = NoChatResponse

\* lines 565-649: up to the await of chat.completions.create
ChatHandle ==
    /\ chat_pc = "received"
    /\ IF ~chat_request.has_key
       THEN /\ \E s \in StrOfUnavailable :
                 chat_response' =
                     ChatExcept([type |-> "HTTPException",
                                 status_code |-> 503,
                                 detail |-> UNAVAILABLE, str |-> s])
            /\ chat_pc' = "responded"
            /\ UNCHANGED <<messages, provider_calls>>
       ELSE /\ messages' = BuildMessages(chat_request)
            /\ provider_calls' = provider_calls + 1
            /\ chat_pc' = "awaiting"
            /\ UNCHANGED chat_response
    /\ UNCHANGED chat_request
    /\ UNCHANGED <<agentVars, serverVars, batchVars, parserVars, queryVars,
                   routeVars>>

ProviderOutcomes == {"ok", "APIError", "Exception"}

\* lines 644-666: the provider call ends
ChatProviderEnds(o) ==
    /\ chat_pc = "awaiting"
    /\ chat_response' =
           IF o = "ok" THEN [status |-> 200, detail |-> ""]
           ELSE ChatExcept([type |-> o, status_code |-> 0, detail |-> "",
                            str |-> "provider error"])
    /\ chat_pc' = "responded"
    /\ UNCHANGED <<chat_request, messages, provider_calls>>
    /\ UNCHANGED <<agentVars, serverVars, batchVars, parserVars, queryVars,
                   routeVars>>

(***************************************************************************)
(* The routes of the REST server (api_server.py), in the order the         *)
(* decorators register them.  A path is the sequence of its segments; the  *)
(* router serves a request by the first route whose pattern matches the    *)
(* whole path and whose method is the request's.                           *)
(***************************************************************************)
\* a {name:path} parameter: its pattern is .*
PathParam == "{:path}"

Route(method, pattern, endpoint) ==
    [method |-> method, pattern |-> pattern, endpoint |-> endpoint]

Routes ==
    << Route("GET", <<"health">>, "health_check"),
       Route("GET", <<"search">>, "search_entities"),
       Route("GET", <<"autocomplete">>, "autocomplete"),
       Route("GET", <<"entity", PathParam>>, "get_entity"),
       Route("GET", <<"entity", PathParam, "children">>,
             "get_entity_children"),
       Route("POST", <<"associations">>, "get_associations"),
       Route("POST", <<"phenotype", "profile-search">>,
             "phenotype_profile_search"),
       Route("GET", <<"phenotype", PathParam, "diseases">>,
             "get_phenotype_diseases"),
       Route("GET", <<"phenotype", PathParam, "genes">>,
             "get_phenotype_genes"),
       Route("GET", <<"disease", PathParam>>, "get_disease"),
       Route("GET", <<"disease", PathParam, "phenotypes">>,
             "get_disease_phenotypes"),
       Route("GET", <<"disease", PathParam, "genes">>, "get_disease_genes"),
       Route("GET", <<"gene", PathParam>>, "get_gene"),
       Route("GET", <<"gene", PathParam, "phenotypes">>,
             "get_gene_phenotypes"),
       Route("GET", <<"gene", PathParam, "diseases">>, "get_gene_diseases"),
       Route("POST", <<"similarity", "compare">>, "compare_termsets"),
       Route("POST", <<"similarity", "search">>, "find_similar_terms"),
       Route("GET", <<"hpo", PathParam, "children">>, "get_hpo_children"),
       Route("POST", <<"chat">>, "chat") >>

\* the pattern matches the whole path; a path parameter takes one segment
\* or more
RECURSIVE PathMatches(_, _)
PathMatches(pattern, path) ==
    IF pattern = << >> THEN path = << >>
    ELSE IF path = << >> THEN FALSE
    ELSE IF Head(pattern) = PathParam
    THEN \E n \in 1..Len(path) :
             PathMatches(Tail(pattern), SubSeq(path, n + 1, Len(path)))
    ELSE Head(path) = Head(pattern) /\ PathMatches(Tail(pattern), Tail(path))

\* what the path parameter of a matching pattern captures
Captured(pattern, path) ==
    IF \E k \in 1..Len(pattern) : pattern[k] = PathParam
    THEN LET k == CHOOSE j \in 1..Len(pattern) : pattern[j] = PathParam
         IN  SubSeq(path, k, Len(path) - (Len(pattern) - k))
    ELSE << >>

\* longest path, in segments, a request asks for
MaxPath == 3

Segments == {"disease", "gene", "entity", "phenotype", "hpo",
             "MONDO:0007947", "phenotypes", "genes", "diseases", "children"}

Paths == UNION {[1..n -> Segments] : n \in 1..MaxPath}

NoRequest == [method |-> "none", path |-> << >>]

NotServed == [status |-> "none", endpoint |-> "none", path_param |-> << >>]

\* no request is being routed
RouteIdle ==
    /\ http_request = NoRequest
    /\ served = NotServed

\* the router on one request: the first full match serves it; without one,
\* the first route that matches the path alone answers 405; without that,
\* a route matching the path with a slash added redirects; else 404
Dispatch ==
    /\ http_request # NoRequest
    /\ served = NotServed
    /\ LET path == http_request.path
           routes == Routes
           full == {r \in 1..Len(routes) :
                       /\ PathMatches(routes[r].pattern, path)
                       /\ routes[r].method = http_request.method}
           partial == {r \in 1..Len(routes) :
                          PathMatches(routes[r].pattern, path)}
           slashed == {r \in 1..Len(routes) :
                          PathMatches(routes[r].pattern, Append(path, ""))}
           First(S) == CHOOSE r \in S : \A q \in S : r <= q
       IN  served' =
             IF full # {}
             THEN [status |-> "served",
                   endpoint |-> routes[First(full)].endpoint,
                   path_param |-> Captured(routes[First(full)].pattern,
                                           path)]
             ELSE IF partial # {}
             THEN [status |-> "405", endpoint |-> "none",
                   path_param |-> << >>]
             ELSE IF slashed # {}
             THEN [status |-> "307", endpoint |-> "none",
                   path_param |-> << >>]
             ELSE [status |-> "404", endpoint |-> "none",
                   path_param |-> << >>]
    /\ UNCHANGED http_request
    /\ UNCHANGED <<agentVars, serverVars, batchVars, parserVars, queryVars,
                   chatVars>>

\* nothing outside the agent is running
RestIdle ==
    /\ QueryIdle
    /\ ChatIdle
    /\ RouteIdle

(***************************************************************************)
(* The program                                                             *)
(***************************************************************************)
\* main() has not started
AgentIdle ==
    /\ pc = "start"
    /\ rpc = "idle"
    /\ api_client = "none"
    /\ closes = 0
    /\ history = << >>
    /\ i = 0
    /\ requests = 0
    /\ max_retries = DEFAULT_MAX_RETRIES
    /\ initial_wait = DEFAULT_INITIAL_WAIT
    /\ attempt = 0
    /\ wait_time = DEFAULT_INITIAL_WAIT * Scale
    /\ slept = << >>
    /\ calls = 0
    /\ response = NoResponse
    /\ raised = "none"
    /\ tool_outcome = NoOutcome
    /\ sigint = "none"
    /\ report = << >>
    /\ questions = 0
    /\ question = NoQuestion

Init ==
    /\ AgentIdle
    /\ server = "rest"
    /\ ServerDown
    /\ BatchIdle
    /\ ParserIdle
    /\ RestIdle

Next ==
    \/ \E has_key \in BOOLEAN : CheckKey(has_key)
    \/ \E ok \in BOOLEAN : BuildPrompt(ok)
    \/ \E line \in Lines : ReadQuestion(line)
    \/ \E text \in Responses : ProviderReturns(text)
    \/ ProviderRateLimited
    \/ ProviderFails
    \/ Sleep
    \/ Step
    \/ \E o \in ToolOutcomes : ToolReturns(o)
    \/ Propagate
    \/ KeyboardInterrupt
    \/ SigintCancel
    \/ DeliverCancel

Spec == Init /\ [][Next]_vars

(***************************************************************************)
(* The interactive loop when every call it waits for ends: a provider call *)
(* returns or raises, a sleep ends, an awaited tool returns or raises, and *)
(* the statements of main() between the calls run.  The prompt may wait    *)
(* for a line for ever.  One response for each way the loop body can go    *)
(* and one tool outcome of each kind are enough here: which branch a step  *)
(* takes is all that the length of a session depends on.                   *)
(***************************************************************************)
SessionResponses ==
    { NoneText,
      <<"Thought">>,
      <<"Thought", MARK, LB, "junk", RB>>,
      <<"Thought", MARK, WS, LB, "tn=finish", "answer", RB, WS>>,
      <<MARK, LB, "tn=[]", RB>>,
      <<"Thought", MARK, LB, "tn=does_not_exist", "arguments=", LB, RB, RB>>,
      <<MARK, LB, "tn=get_entity", "arguments=", LB, "bogus", RB, RB>>,
      <<"Thought", MARK, LB, "tn=get_entity", "arguments=", LB, "entity_id",
        RB, RB, "Thought">> }

SessionOutcomes ==
    {o \in ToolOutcomes : o.chars \in {TRUNCATE_AT + 1, 30, 41}}

\* main() at the prompt for the first time (line 124)
InitSession ==
    /\ pc = "input"
    /\ rpc = "idle"
    /\ api_client = "open"
    /\ closes = 0
    /\ history = << >>
    /\ i = 0
    /\ requests = 0
    /\ max_retries = DEFAULT_MAX_RETRIES
    /\ initial_wait = DEFAULT_INITIAL_WAIT
    /\ attempt = 0
    /\ wait_time = DEFAULT_INITIAL_WAIT * Scale
    /\ slept = << >>
    /\ calls = 0
    /\ response = NoResponse
    /\ raised = "none"
    /\ tool_outcome = NoOutcome
    /\ sigint = "none"
    /\ report = << >>
    /\ questions = 0
    /\ question = NoQuestion
    /\ server = "rest"
    /\ ServerDown
    /\ BatchIdle
    /\ ParserIdle
    /\ RestIdle

ProviderEnds ==
    \/ \E text \in SessionResponses : ProviderReturns(text)
    \/ ProviderRateLimited
    \/ ProviderFails

ToolEnds == \E o \in SessionOutcomes : ToolReturns(o)

NextSession ==
    \/ \E line \in Lines : ReadQuestion(line)
    \/ \E text \in SessionResponses : ProviderReturns(text)
    \/ ProviderRateLimited
    \/ ProviderFails
    \/ Sleep
    \/ Step
    \/ \E o \in SessionOutcomes : ToolReturns(o)
    \/ Propagate

SpecSession ==
    /\ InitSession
    /\ [][NextSession]_vars
    /\ WF_vars(ProviderEnds)
    /\ WF_vars(Sleep)
    /\ WF_vars(Step)
    /\ WF_vars(ToolEnds)
    /\ WF_vars(Propagate)

(***************************************************************************)
(* call_openai_with_retry on its own, for any max_retries and initial_wait *)
(***************************************************************************)
InitRetry ==
    /\ pc = "caller"
    /\ rpc = "calling"
    /\ api_client = "none"
    /\ closes = 0
    /\ history = << >>
    /\ i = 0
    /\ requests = 1
    /\ max_retries \in 0..MaxRetriesArg
    /\ initial_wait \in InitialWaits
    /\ attempt = 0
    /\ wait_time = initial_wait * Scale
    /\ slept = << >>
    /\ calls = 0
    /\ response = NoResponse
    /\ raised = "none"
    /\ tool_outcome = NoOutcome
    /\ sigint = "none"
    /\ report = << >>
    /\ questions = 0
    /\ question = NoQuestion
    /\ server = "rest"
    /\ ServerDown
    /\ BatchIdle
    /\ ParserIdle
    /\ RestIdle

NextRetry ==
    \/ \E text \in Responses : ProviderReturns(text)
    \/ ProviderRateLimited
    \/ ProviderFails
    \/ Sleep
    \/ MaxRetriesExceeded

SpecRetry == InitRetry /\ [][NextRetry]_vars

(***************************************************************************)
(* A server on its own: either module, MaxHandlers requests                *)
(***************************************************************************)
InitServer ==
    /\ AgentIdle
    /\ server \in {"rest", "mcp"}
    /\ ServerDown
    /\ BatchIdle
    /\ ParserIdle
    /\ RestIdle

NextServer ==
    \/ LifespanStart
    \/ LifespanStop
    \/ \E h \in Handlers : HandlerBegin(h)
    \/ \E h \in Handlers : \E ok \in BOOLEAN : HandlerEnd(h, ok)

SpecServer == InitServer /\ [][NextServer]_vars

(***************************************************************************)
(* get_entities_batch on its own, for any list of at most MaxBatch ids     *)
(***************************************************************************)
InitBatch ==
    /\ AgentIdle
    /\ server = "rest"
    /\ ServerDown
    /\ entity_ids \in IdLists
    /\ results = << >>
    /\ lookups = << >>
    /\ batch_pc = "loop"
    /\ lookup_outcome = NoLookup
    /\ ParserIdle
    /\ RestIdle

NextBatch ==
    \/ \E o \in LookupOutcomes : Lookup(o)
    \/ BatchReturn

SpecBatch == InitBatch /\ [][NextBatch]_vars

(***************************************************************************)
(* The parsing of one response on its own, for every response put together *)
(* from at most MaxProse tokens of prose in each place                     *)
(***************************************************************************)
InitParse ==
    /\ AgentIdle
    /\ server = "rest"
    /\ ServerDown
    /\ BatchIdle
    /\ parts \in [thought : ProseOf(ThoughtTokens),
                  marker : {<<MARK>>},
                  filler : ProseOf(ProseTokens),
                  object : ActionObjects,
                  trailing : ProseOf(ProseTokens)]
    /\ parsed = NotParsed
    /\ RestIdle

NextParse == ParseResponse

SpecParse == InitParse /\ [][NextParse]_vars

(***************************************************************************)
(* The extraction of the action text on its own, for every response made   *)
(* of a Thought with or without braces, the marker or none, and any text   *)
(* of at most MaxText tokens after it                                      *)
(***************************************************************************)
MaxText == 4

ExtractTokens == {LB, RB, WS, MARK, "tn=finish"}

InitExtract ==
    /\ AgentIdle
    /\ server = "rest"
    /\ ServerDown
    /\ BatchIdle
    /\ parts \in [thought : {<< >>, <<LB, "tn=finish", RB>>},
                  marker : {<< >>, <<MARK>>},
                  filler : {<< >>},
                  object : {<< >>},
                  trailing : UNION {[1..n -> ExtractTokens] :
                                       n \in 0..MaxText}]
    /\ parsed = NotParsed
    /\ RestIdle

NextExtract == ParseResponse

SpecExtract == InitExtract /\ [][NextExtract]_vars

(***************************************************************************)
(* One call of a query tool on its own, for every tool and every choice of *)
(* the keywords passed                                                     *)
(***************************************************************************)
InitQuery ==
    /\ AgentIdle
    /\ server = "rest"
    /\ ServerDown
    /\ BatchIdle
    /\ ParserIdle
    /\ \E tool \in QueryTools :
           tool_call \in [tool : {tool}, kwargs : KwargsOf(tool)]
    /\ query_pc = "called"
    /\ gets = << >>
    /\ ChatIdle
    /\ RouteIdle

NextQuery == QueryTool

SpecQuery == InitQuery /\ [][NextQuery]_vars

(***************************************************************************)
(* One POST /chat on its own, for every request of ChatRequests            *)
(***************************************************************************)
InitChat ==
    /\ AgentIdle
    /\ server = "rest"
    /\ ServerDown
    /\ BatchIdle
    /\ ParserIdle
    /\ QueryIdle
    /\ chat_request \in ChatRequests
    /\ chat_pc = "received"
    /\ messages = << >>
    /\ provider_calls = 0
    /\ chat_response = NoChatResponse
    /\ RouteIdle

NextChat ==
    \/ ChatHandle
    \/ \E o \in ProviderOutcomes : ChatProviderEnds(o)

SpecChat == InitChat /\ [][NextChat]_vars

(***************************************************************************)
(* The routing of one request on its own, for every path of at most        *)
(* MaxPath segments                                                        *)
(***************************************************************************)
InitRoute ==
    /\ AgentIdle
    /\ server = "rest"
    /\ ServerDown
    /\ BatchIdle
    /\ ParserIdle
    /\ QueryIdle
    /\ ChatIdle
    /\ http_request \in [method : {"GET", "POST"}, path : Paths]
    /\ served = NotServed

NextRoute == Dispatch

SpecRoute == InitRoute /\ [][NextRoute]_vars

(***************************************************************************)
(* Properties                                                              *)
(***************************************************************************)
LastTurn(h) == h[Len(h)]

\* a step of the loop body appended its observation in this transition
ObservationAppended ==
    /\ Len(history') > Len(history)
    /\ LastTurn(history').role = "user"

\* the responses of Responses that carry a finish action
FinishTexts ==
    { <<"Thought", MARK, WS, LB, "tn=finish", "answer", RB, WS>>,
      <<MARK, LB, "tn=finish", RB>>,
      <<MARK, LB, "tn=finish", "arguments=", LB, "entity_id", RB, RB>> }

\* C1 (step budget): whatever the responses, a session never issues more
\* than 15 completion requests; every step that appends an observation (so
\* did not finish) is followed by the next step's request while fewer than
\* 15 steps are done, and the 15th such step reports the maximum-steps
\* warning instead of an answer and returns to the prompt; the warning is
\* reported only after exactly 15 requests and 15 assistant turns.
C1_StepBudget ==
    /\ [](requests <= 15 /\ i < 15)
    /\ [](report = WARNING =>
            requests = 15 /\ Len(history) = 2 + 2 * 15)
    /\ [][ObservationAppended =>
            IF requests < 15
            THEN /\ requests' = requests + 1
                 /\ pc' = "completion"
                 /\ rpc' = "calling"
                 /\ report' # WARNING
            ELSE /\ requests' = 15
                 /\ report' = WARNING
                 /\ pc' = "input"
                 /\ rpc' = "idle"]_vars

C1_Witness ==
    /\ pc = "input"
    /\ report = WARNING
    /\ requests = 15
    /\ Len(history) = 32

\* C2 (finish short-circuit): when the response of any step carries a
\* finish action, processing it appends the assistant turn only, reports
\* the final answer and not the warning, starts no completion request and
\* no tool, and returns to the prompt.
C2_FinishShortCircuit ==
    [][(pc = "completion" /\ rpc = "returned" /\ response \in FinishTexts
        /\ history' # history)
       => /\ Len(history') = Len(history) + 1
          /\ LastTurn(history') = Turn("assistant", response)
          /\ Len(report') = 2
          /\ report'[1] = "Final Answer:"
          /\ pc' = "input"
          /\ rpc' = "idle"
          /\ requests' = requests
          /\ calls' = calls
          /\ tool_outcome' = NoOutcome]_vars

C2_Witness ==
    /\ pc = "input"
    /\ requests = 15
    /\ Len(report) = 2
    /\ report[1] = "Final Answer:"
    /\ LastTurn(history).role = "assistant"
    /\ LastTurn(history).content \in FinishTexts

\* the responses of Responses from which lines 144-154 extract nothing
NoActionTexts ==
    { <<"Thought">>,
      <<"Thought", MARK, "Thought">>,
      <<"Thought", MARK, RB, "Thought", LB>> }

\* the responses of Responses whose extracted text is not JSON
InvalidJsonTexts ==
    { <<"Thought", MARK, LB, "junk", RB>>,
      <<"Thought", MARK, "Thought", LB, "tn=get_entity", "arguments=", LB,
        "entity_id", RB, RB, "Thought", RB>> }

\* the responses of Responses that name a tool the catalog does not have
UnknownToolTexts ==
    { <<"Thought", MARK, LB, "tn=does_not_exist", "arguments=", LB, RB, RB>> }

\* the step that processes `response` appended the assistant turn and then
\* exactly the observation obs, called no tool, raised nothing, and the loop
\* went on to the next step (after the 15th step: to the prompt, with the
\* warning of the exhausted budget)
StepAppendsOnly(obs) ==
    /\ Len(history') = Len(history) + 2
    /\ history'[Len(history) + 1] = Turn("assistant", response)
    /\ LastTurn(history') = obs
    /\ tool_outcome' = NoOutcome
    /\ raised' = raised
    /\ closes' = closes
    /\ IF i + 1 < 15
       THEN i' = i + 1 /\ requests' = requests + 1 /\ pc' = "completion"
       ELSE pc' = "input" /\ report' = WARNING

\* C3 (tool failure): whenever the tool call of a step raised, the step
\* appended a user-role observation that carries the error text, nothing
\* propagated, and the next step's request was issued unless the budget of
\* 15 steps is used up.
C3_ToolFailureObserved ==
    [][(Len(history') > Len(history) /\ tool_outcome'.kind = "raise")
       => /\ raised' = raised
          /\ pc' # "done"
          /\ LastTurn(history').role = "user"
          /\ \E k \in 1..Len(LastTurn(history').content) :
                 LastTurn(history').content[k] = tool_outcome'.text
          /\ IF requests < 15
             THEN requests' = requests + 1 /\ pc' = "completion"
                  /\ rpc' = "calling"
             ELSE pc' = "input"]_vars

\* C4 (parse failure): a response with no extractable action, or whose
\* extracted text is not JSON, costs exactly one step: the step appends the
\* assistant turn and one corrective user-role observation (one message for
\* the first case, another for the second), calls no tool, raises nothing,
\* and the step counter advances by 1.
C4_ParseFailureRecoverable ==
    [][(pc = "completion" /\ rpc = "returned" /\ history' # history
        /\ response \in NoActionTexts \cup InvalidJsonTexts)
       => StepAppendsOnly(
            IF response \in NoActionTexts
            THEN Turn("user", <<"Observation: Error parsing action. Please ensure the Action block contains valid JSON.">>)
            ELSE Turn("user", <<"Observation: Error parsing action JSON. Use valid JSON format.">>))]_vars

C4_Witness ==
    /\ pc = "completion"
    /\ i = 3
    /\ Len(history) = 8
    /\ history[7].content \in InvalidJsonTexts
    /\ history[8].content = <<"Observation: Error parsing action JSON. Use valid JSON format.">>

\* C5 (unknown tool): a response whose action names a tool that is not in
\* the catalog costs exactly one step: the step appends one observation
\* that holds the invalid name and tells the model to choose from the
\* available tools, calls no tool, raises nothing, and the step counter
\* advances by 1.
C5_UnknownToolRecoverable ==
    [][(pc = "completion" /\ rpc = "returned" /\ history' # history
        /\ response \in UnknownToolTexts)
       => StepAppendsOnly(
            Turn("user", <<"Observation: Invalid tool name '",
                           "does_not_exist",
                           "'. Choose from available tools.">>))]_vars

C5_Witness ==
    /\ pc = "completion"
    /\ i = 1
    /\ Len(history) = 4
    /\ history[3].content \in UnknownToolTexts
    /\ history[4].content[2] = "does_not_exist"

\* C6 (rate-limit exhaustion): one completion request makes at most 10
\* provider calls; a rate-limited call is followed by a sleep and a retry
\* only while fewer than 10 calls were made, and the rate-limit error is
\* raised exactly at the 10th call; once it is raised the loop issues no
\* further request, provider call or tool call and appends nothing to the
\* history: main() only unwinds.
C6_RateLimitExhaustion ==
    /\ [](/\ calls <= 10
          /\ (rpc = "sleeping" => calls < 10)
          /\ (raised = "RateLimitError" => calls = 10 /\ Len(slept) = 9))
    /\ [][raised = "RateLimitError"
          => /\ history' = history
             /\ requests' = requests
             /\ calls' = calls
             /\ slept' = slept
             /\ pc' \in {pc, "done"}
             /\ rpc' \in {rpc, "idle"}]_vars

C6_Witness ==
    /\ pc = "done"
    /\ raised = "RateLimitError"
    /\ calls = 10
    /\ closes = 1

\* min(w0 * 1.5^k, 60) seconds, in 1/Scale s
ClosedFormWait(w0, k) ==
    IF w0 * 3 ^ k >= 60 * 2 ^ k THEN 60 * Scale
    ELSE (w0 * 3 ^ k * Scale) \div 2 ^ k

\* C7 (backoff law): in one completion request the first wait slept is
\* wait_0 and the wait slept after the rate-limited attempt number k
\* (k >= 1, counted from 0) is min(wait_0 * 1.5^k, 60); for wait_0 = 25 the
\* waits are 25, 37.5, 56.25 and then 60 every time.
C7_BackoffLaw ==
    \A n \in 1..Len(slept) :
        /\ slept[n] = IF n = 1 THEN initial_wait * Scale
                      ELSE ClosedFormWait(initial_wait, n - 1)
        /\ initial_wait = 25 =>
             slept[n] = IF n = 1 THEN 25 * Scale
                        ELSE IF n = 2 THEN (75 * Scale) \div 2
                        ELSE IF n = 3 THEN (225 * Scale) \div 4
                        ELSE 60 * Scale

C7_Witness ==
    /\ initial_wait = 25
    /\ Len(slept) = 6
    /\ slept[6] = 60 * Scale

\* C8 (other provider errors): when a provider call fails with an error
\* that is not a rate limit, the error is raised by that very call, with no
\* sleep, and afterwards no provider call and no sleep is made: the error
\* goes to the caller, which unwinds.
C8_OtherErrorsPropagate ==
    /\ [][(raised' = "APIError" /\ raised # "APIError")
          => /\ rpc' = "raised"
             /\ calls' = calls + 1
             /\ slept' = slept
             /\ attempt' = attempt]_vars
    /\ [][raised = "APIError"
          => /\ calls' = calls
             /\ slept' = slept
             /\ history' = history
             /\ rpc' \in {rpc, "idle"}
             /\ pc' \in {pc, "done"}]_vars

C8_Witness ==
    /\ pc = "done"
    /\ raised = "APIError"
    /\ Len(slept) = 3
    /\ calls = 4
    /\ closes = 1

\* a provider call or a tool call begins in this transition
BeginsCall ==
    \/ rpc' = "calling" /\ (rpc # "calling" \/ requests' # requests)
    \/ pc' = "tool" /\ pc # "tool"

\* C9 (shutdown on interruption): once an interruption has arrived in the
\* interactive loop, no completion call and no tool call begins, and when
\* the program has ended close() has run exactly once.
C9_InterruptShutsDown ==
    /\ [][sigint = "cancel_pending" => ~BeginsCall]_vars
    /\ []((pc = "done" /\ (sigint = "cancel_pending"
                           \/ raised \in {"KeyboardInterrupt",
                                          "CancelledError"}))
          => closes = 1)

\* C10 (release on every exit path): whenever the program has ended after
\* constructing the client, close() has run exactly once on it.
C10_ReleasedOnEveryExit ==
    (pc = "done" /\ api_client # "none") => closes = 1 /\ api_client = "closed"

\* C11 (truncation boundary): when the tool call of a step returned a
\* result whose serialised text has L characters, the observation the step
\* appended holds the L characters and no marker when L <= 2000 (L = 2000
\* included), and the first 2000 characters followed by the marker when
\* L >= 2001.
C11_TruncationBoundary ==
    tool_outcome.kind = "ok"
    => /\ LastTurn(history).role = "user"
       /\ LastTurn(history).content[1] = "Observation:\n"
       /\ LastTurn(history).payload =
            IF tool_outcome.chars <= 2000
            THEN [chars |-> tool_outcome.chars, marker |-> FALSE]
            ELSE [chars |-> 2000, marker |-> TRUE]

C11_Witness ==
    /\ tool_outcome.kind = "ok"
    /\ tool_outcome.chars = 2000
    /\ pc = "completion"
    /\ LastTurn(history).payload = [chars |-> 2000, marker |-> FALSE]

\* C12 (error observations obey the cap): when the tool call of a step
\* raised, the observation the step appended carries the error text, cut
\* like a result (the first 2000 characters and the marker when it is
\* longer), so that no turn of the history holds more than 2000 characters
\* of a result or an error message.  The JSONDecodeError of a tool, whose
\* observation is the subject of C3, is left aside here.
C12_ErrorObservationCapped ==
    /\ \A k \in 1..Len(history) : history[k].payload.chars <= 2000
    /\ (tool_outcome.kind = "raise" /\ tool_outcome.exc # "JSONDecodeError")
       => /\ LastTurn(history).role = "user"
          /\ LastTurn(history).content[Len(LastTurn(history).content)]
                = tool_outcome.text
          /\ LastTurn(history).payload =
               IF tool_outcome.chars <= 2000
               THEN [chars |-> tool_outcome.chars, marker |-> FALSE]
               ELSE [chars |-> 2000, marker |-> TRUE]

RoleAt(k) ==
    IF k = 1 THEN "system"
    ELSE IF k % 2 = 0 THEN "user" ELSE "assistant"

\* C14 (alternation): in every state the history is the system turn, the
\* question, then assistant and user-role turns in alternation; a step
\* that finishes appends the assistant turn only; every other step appends
\* the assistant turn and then one user-role observation, at once when no
\* tool is awaited (no action, invalid JSON, unknown tool, arguments that
\* do not bind) and when the awaited tool ends (result or error)
\* otherwise, so that each request of a session finds 2 + 2 * i turns.
C14_HistoryAlternates ==
    /\ [](\A k \in 1..Len(history) : history[k].role = RoleAt(k))
    /\ [](pc = "completion" => Len(history) = 2 + 2 * i)
    /\ [](pc = "tool" => Len(history) = 3 + 2 * i)
    /\ [][(pc = "completion" /\ history' # history)
          => IF response \in FinishTexts
             THEN /\ Len(history') = Len(history) + 1
                  /\ pc' = "input"
             ELSE \/ /\ Len(history') = Len(history) + 1
                     /\ pc' = "tool"
                  \/ /\ Len(history') = Len(history) + 2
                     /\ history'[Len(history) + 1].role = "assistant"
                     /\ LastTurn(history').role = "user"
                     /\ LastTurn(history').content # << >>
                     /\ pc' \in {"completion", "input"}]_vars
    /\ [][(pc = "tool" /\ pc' \notin {"tool", "done"})
          => /\ Len(history') = Len(history) + 1
             /\ LastTurn(history').role = "user"
             /\ LastTurn(history').content # << >>]_vars

C14_Witness ==
    /\ pc = "completion"
    /\ i = 2
    /\ Len(history) = 6
    /\ tool_outcome.kind = "raise"
    /\ tool_outcome.exc = "ConnectError"
    /\ history[5].role = "assistant"
    /\ history[6].role = "user"

\* a session is under way: a question was read and its loop has not ended
InSession == pc \in {"completion", "tool"}

\* C15 (termination): within a session the step counter never decreases;
\* a session makes at most 15 requests, each of at most max_retries = 10
\* provider calls, so at most 150 calls in all; and when every provider
\* call and every tool call ends, every session ends: the program is back
\* at the prompt (answer or warning printed) or has ended.
C15_SessionTerminates ==
    /\ [][InSession => i' >= i]_vars
    /\ [](InSession => /\ i < 15
                       /\ requests = i + 1
                       /\ max_retries = 10
                       /\ calls <= max_retries)
    /\ InSession ~> (pc \in {"input", "done"})

C15_Witness ==
    /\ pc = "input"
    /\ questions = 2
    /\ i = 14
    /\ requests = 15
    /\ report = WARNING

\* C16 (sequential steps): at most one external call is outstanding: while
\* a tool is awaited no completion request is under way, and a request is
\* under way only in the completion part of a step; a tool call begins
\* only from a returned request whose response has just been appended; the
\* request of the next step begins only when the observation of this step
\* has been appended; and a step that awaits a tool ends when the tool
\* ends, so a step calls at most one tool.
C16_SequentialSteps ==
    /\ [](pc = "tool" => rpc = "idle" /\ Len(history) = 3 + 2 * i)
    /\ [](rpc \in {"calling", "sleeping"} => pc = "completion")
    /\ [][(pc' = "tool" /\ pc # "tool")
          => /\ pc = "completion"
             /\ rpc = "returned"
             /\ LastTurn(history') = Turn("assistant", response)
             /\ i' = i
             /\ requests' = requests]_vars
    /\ [][(requests' = requests + 1 /\ pc # "input")
          => /\ rpc \in {"idle", "returned"}
             /\ rpc' = "calling"
             /\ pc' = "completion"
             /\ i' = i + 1
             /\ LastTurn(history').role = "user"
             /\ Len(history') = 2 + 2 * i']_vars
    /\ [][(pc = "tool" /\ pc' # "tool")
          => \/ pc' = "done"
             \/ pc' = "input" /\ i = 14
             \/ pc' = "completion" /\ i' = i + 1]_vars

C16_Witness ==
    /\ pc = "tool"
    /\ rpc = "idle"
    /\ i = 3
    /\ requests = 4
    /\ calls = 2
    /\ LastTurn(history).role = "assistant"

\* C17 (shared client of the servers): in either server the client is
\* constructed once, when lifespan() starts, and closed once, when it
\* stops: before the start there is no client, while serving _client is
\* the one open client, after the stop it was closed exactly once and
\* _client is None.  No step of a request (arriving, failing, succeeding,
\* with other requests under way) constructs, closes or replaces the
\* client.  A request that arrives after the stop gets no client:
\* get_client() raises, which the REST server reports as status 500 (as it
\* does every failure of a handler).
C17_SharedClientLifetime ==
    /\ [](lifespan_pc = "before"
            => created = 0 /\ server_closes = 0 /\ shared_client = "None")
    /\ [](lifespan_pc = "serving"
            => created = 1 /\ server_closes = 0 /\ shared_client = "client")
    /\ [](lifespan_pc = "after"
            => created = 1 /\ server_closes = 1 /\ shared_client = "None")
    /\ [][handlers' # handlers
          => /\ shared_client' = shared_client
             /\ created' = created
             /\ server_closes' = server_closes
             /\ lifespan_pc' = lifespan_pc]_vars
    /\ [][\A h \in Handlers :
            (handlers[h].at = "idle" /\ handlers'[h].at # "idle"
             /\ lifespan_pc # "serving")
            => /\ handlers'[h].at = "done"
               /\ handlers'[h].client = "None"
               /\ handlers'[h].status
                    = IF server = "rest" THEN "500" ELSE "raised"]_vars
    /\ [](server = "rest"
            => \A h \in Handlers : handlers[h].status # "raised")

C17_Witness ==
    /\ server = "rest"
    /\ lifespan_pc = "after"
    /\ server_closes = 1
    /\ handlers[1] = [at |-> "done", client |-> "client", status |-> "500"]
    /\ handlers[2] = [at |-> "done", client |-> "client", status |-> "ok"]
    /\ handlers[3] = [at |-> "done", client |-> "None", status |-> "500"]

\* the responses of Responses whose action object has no tool_name, or a
\* tool_name that is a number or a list
NoToolNameTexts ==
    { <<MARK, LB, "answer", RB>>,
      <<MARK, LB, "tn=7", RB>>,
      <<MARK, LB, "tn=[]", RB>> }

\* C18 (missing or non-string tool_name): a response whose action object
\* has no tool_name, or one that is not a string, costs one step that
\* appends the assistant turn and a parse-failure observation (one of the
\* two corrective messages of C4, not the invalid-tool message and not an
\* error message), calls no tool, raises nothing, and the loop goes on.
C18_NoToolNameIsMalformed ==
    [][(pc = "completion" /\ rpc = "returned" /\ history' # history
        /\ response \in NoToolNameTexts)
       => /\ StepAppendsOnly(LastTurn(history'))
          /\ LastTurn(history').content \in
               { <<"Observation: Error parsing action. Please ensure the Action block contains valid JSON.">>,
                 <<"Observation: Error parsing action JSON. Use valid JSON format.">> }]_vars

\* the parser made of the response exactly its action object: the text it
\* extracted is the object, and json.loads gave the tool name, answer and
\* arguments that it gives for the object alone
ExtractedTheObject ==
    /\ parsed.action_json_str = parts.object
    /\ parsed.ok
    /\ JsonLoads(parts.object).ok
    /\ parsed.action = JsonLoads(parts.object).val

\* the tokens that stand between the first marker of the response and the
\* action object
BeforeObject ==
    LET pre == parts.thought \o <<MARK>> \o parts.filler
        m == CHOOSE k \in 1..Len(pre) :
                 pre[k] = MARK /\ \A j \in 1..(k - 1) : pre[j] # MARK
    IN  {pre[k] : k \in (m + 1)..Len(pre)}

AfterObject == {parts.trailing[k] : k \in 1..Len(parts.trailing)}

\* C19 as claimed (brace extraction): whatever the Thought prose, the
\* filler after the marker and the trailing prose are, the parser extracts
\* exactly the action object.
C19_AnyProseIgnored == parsed.done => ExtractedTheObject

\* C19 (brace extraction, amended): when no opening brace stands between
\* the first marker and the action object and no closing brace stands in
\* the trailing prose, the parser extracts exactly the action object,
\* whatever else the prose, the filler and the trailing text hold.
C19_BraceFreeProseIgnored ==
    (parsed.done /\ LB \notin BeforeObject /\ RB \notin AfterObject)
    => ExtractedTheObject

C19_Witness ==
    /\ parsed.done
    /\ parts.thought = <<MARK, "Thought">>
    /\ parts.filler = <<"blah", RB>>
    /\ parts.trailing = <<LB, "blah">>
    /\ Len(parts.object) = 7
    /\ ExtractedTheObject

\* C20 (batch retrieval isolates failures): get_entities_batch looks the
\* ids up one at a time in the order of its argument, one lookup for each
\* id; a lookup that raises an exception puts an entry with that id and
\* the error text at that position, the exception does not leave the
\* function and the lookups of the ids that follow are made; what it
\* returns has one entry for each id, in the order of the ids.
C20_BatchIsolatesFailures ==
    /\ [](/\ Len(lookups) <= Len(entity_ids)
          /\ lookups = SubSeq(entity_ids, 1, Len(lookups))
          /\ \A k \in 1..Len(results) : results[k].id = entity_ids[k])
    /\ [](batch_pc = "returned"
            => /\ lookups = entity_ids
               /\ Len(results) = Len(entity_ids))
    /\ [][(lookups' # lookups /\ lookup_outcome'.kind = "raise")
          => /\ batch_pc' = "loop"
             /\ results' = Append(results,
                    [kind |-> "error", id |-> entity_ids[Len(lookups')],
                     error |-> lookup_outcome'.text])]_vars
    /\ [][(lookups' # lookups /\ lookup_outcome'.kind = "ok")
          => /\ batch_pc' = "loop"
             /\ Len(results') = Len(results) + 1
             /\ results'[Len(results')].kind = "entity"]_vars
    /\ [](batch_pc = "raised" => lookup_outcome.kind = "cancel")

C20_Witness ==
    /\ batch_pc = "returned"
    /\ Len(entity_ids) = 3
    /\ results[1].kind = "error"
    /\ results[1].id = entity_ids[1]
    /\ results[2].kind = "entity"
    /\ results[3].kind = "error"
    /\ results[3].error = "All connection attempts failed"

\* the defaults that are not None, as the signatures give them
NonNoneDefaults ==
    [q |-> "*:*", direct |-> "False", compact |-> "False",
     traverse_orthologs |-> "False", limit |-> "20", offset |-> "0"]

\* C21: a query tool issues exactly one GET, and its params hold exactly
\* the arguments whose value is not None: a filter left out or passed as
\* None is absent, an argument passed with a value is sent with that value,
\* and an argument left at a default that is not None (direct, compact,
\* traverse_orthologs False, limit 20, offset 0) is sent with the default
C21_FilterForwarding ==
    /\ query_pc = "called" => gets = << >>
    /\ query_pc = "returned" =>
        /\ Len(gets) = 1
        /\ LET kwargs == tool_call.kwargs
               sent == gets[1].params
               keys == DOMAIN kwargs \
                           (IF "entity_id" \in DOMAIN kwargs
                            THEN {"entity_id", "category"} ELSE {})
           IN  /\ DOMAIN sent \subseteq keys
               /\ \A k \in keys :
                    IF kwargs[k] = PyNone
                    THEN k \notin DOMAIN sent
                    ELSE IF kwargs[k] # Unset
                    THEN k \in DOMAIN sent /\ sent[k] = kwargs[k]
                    ELSE IF k \in DOMAIN NonNoneDefaults
                    THEN k \in DOMAIN sent /\ sent[k] = NonNoneDefaults[k]
                    ELSE k \notin DOMAIN sent

\* get_associations returned with a filter passed, a filter left out, limit
\* passed as None and direct left at False
C21_Witness ==
    /\ query_pc = "returned"
    /\ tool_call.tool = "get_associations"
    /\ tool_call.kwargs.category # Unset
    /\ tool_call.kwargs.subject = Unset
    /\ tool_call.kwargs.limit = PyNone
    /\ tool_call.kwargs.direct = Unset
    /\ DOMAIN gets[1].params = {"category", "direct", "compact", "offset"}
    /\ gets[1].params.direct = "False"

\* line 124 returned a line and lines 125-131 dealt with it
LineRead ==
    /\ pc = "input"
    /\ \/ pc' = "completion"
       \/ pc' = "done" /\ raised' = "none"

\* the line ended the program: no request, no tool call, one close
EndsProgram ==
    /\ pc' = "done"
    /\ rpc' = "idle"
    /\ api_client' = "closed"
    /\ closes' = closes + 1
    /\ UNCHANGED <<history, requests, calls, tool_outcome, questions>>

\* the line started a session on it: a new history and the first request
StartsSession ==
    /\ pc' = "completion"
    /\ rpc' = "calling"
    /\ history' = <<Turn("system", <<"system_prompt">>),
                    Turn("user", <<question'>>)>>
    /\ requests' = 1
    /\ UNCHANGED <<api_client, closes>>

\* C22 as stated: the line "exit", and no other line, ends the program
\* without starting a session; every other line starts a question session
C22_OnlyLiteralExitEnds ==
    [][LineRead =>
          IF question' = "exit" THEN EndsProgram ELSE StartsSession]_vars

\* the lines of Lines that str.lower maps to "exit"
ExitLines == {"exit", "EXIT"}

\* C22: a line that is "exit" in any letter case ends the program without
\* starting a session (no completion request, no tool call, the client
\* closed once); every other line starts a question session
C22_ExitInAnyCaseEnds ==
    [][LineRead =>
          IF question' \in ExitLines THEN EndsProgram ELSE StartsSession]_vars

\* a question was asked, then the line "EXIT" ended the program
C22_Witness ==
    /\ pc = "done"
    /\ question = "EXIT"
    /\ questions = 1
    /\ raised = "none"
    /\ closes = 1
    /\ api_client = "closed"

\* a completion request begins: line 136 is reached
RequestBegins ==
    \/ pc = "input" /\ pc' = "completion"
    \/ requests' = requests + 1

\* C23: every completion request starts with attempt 0, the wait at the
\* initial wait, nothing slept and the full number of attempts, whatever
\* the requests before it met; and a step that changes the retry state
\* within a request leaves the history as it is
C23_RetryStatePerRequest ==
    [][/\ RequestBegins =>
            /\ rpc' = "calling"
            /\ attempt' = 0
            /\ max_retries' = DEFAULT_MAX_RETRIES
            /\ initial_wait' = DEFAULT_INITIAL_WAIT
            /\ wait_time' = DEFAULT_INITIAL_WAIT * Scale
            /\ slept' = << >>
            /\ calls' = 0
       /\ (~RequestBegins /\ <<attempt, wait_time, slept, calls>>'
                                # <<attempt, wait_time, slept, calls>>) =>
            history' = history]_vars

\* a request after the first was rate limited once: it slept the initial
\* wait and stands at attempt 1
C23_Witness ==
    /\ requests >= 2
    /\ rpc = "calling"
    /\ attempt = 1
    /\ slept = <<DEFAULT_INITIAL_WAIT * Scale>>

\* the text that follows the first marker of the response being parsed
AfterMarker ==
    LET text == TextOf(parts)
        m == CHOOSE k \in 1..Len(text) :
                 text[k] = MARK /\ \A j \in 1..(k - 1) : text[j] # MARK
    IN  SubSeq(text, m + 1, Len(text))

HasMarker == \E k \in 1..Len(TextOf(parts)) : TextOf(parts)[k] = MARK

PositionsOf(s, tok) == {k \in 1..Len(s) : s[k] = tok}

Least(S) == CHOOSE k \in S : \A j \in S : k <= j

Greatest(S) == CHOOSE k \in S : \A j \in S : k >= j

\* the marker is absent, or no '{' follows it, or no '}' follows it, or the
\* last '}' comes before the first '{'
NoCandidate ==
    \/ ~HasMarker
    \/ PositionsOf(AfterMarker, LB) = {}
    \/ PositionsOf(AfterMarker, RB) = {}
    \/ Greatest(PositionsOf(AfterMarker, RB))
           < Least(PositionsOf(AfterMarker, LB))

\* C24: nothing is extracted, and nothing parsed, exactly when the marker
\* is absent, or no '{' follows it, or no '}' follows it, or the last '}'
\* comes before the first '{'; otherwise the candidate is the text from the
\* first '{' to the last '}' after the first marker
C24_ExtractionAlgorithm ==
    parsed.done =>
        IF NoCandidate
        THEN parsed.action_json_str = << >> /\ ~parsed.ok
        ELSE /\ parsed.action_json_str # << >>
             /\ parsed.action_json_str =
                    SubSeq(AfterMarker, Least(PositionsOf(AfterMarker, LB)),
                           Greatest(PositionsOf(AfterMarker, RB)))

\* braces before the marker and only a '}' before a '{' after it: nothing is
\* extracted
C24_Witness ==
    /\ parsed.done
    /\ parts.thought = <<LB, "tn=finish", RB>>
    /\ parts.marker = <<MARK>>
    /\ parts.trailing = <<WS, RB, LB>>
    /\ parsed.action_json_str = << >>

\* responses whose action names the tool "finish": with an answer, without
\* one, and with an arguments field
FinishActions ==
    { <<"Thought", MARK, WS, LB, "tn=finish", "answer", RB, WS>>,
      <<MARK, LB, "tn=finish", RB>>,
      <<MARK, LB, "tn=finish", "arguments=", LB, "entity_id", RB, RB>> }

FinishActions_WithAnswer ==
    <<"Thought", MARK, WS, LB, "tn=finish", "answer", RB, WS>>

\* responses whose action names another tool, or none
OtherActions ==
    { <<"Thought", MARK, "Thought", LB, "tn=get_entity", "arguments=", LB,
        "entity_id", RB, RB, "Thought", RB>>,
      <<"Thought", MARK, LB, "tn=does_not_exist", "arguments=", LB, RB, RB>>,
      <<MARK, LB, "answer", RB>>,
      <<MARK, LB, "tn=7", RB>>,
      <<MARK, LB, "tn=[]", RB>>,
      <<"Thought", MARK, LB, "tn=get_entity", "arguments=", LB, "entity_id",
        RB, RB, "Thought">>,
      <<MARK, LB, "tn=get_entity", "arguments=", LB, "bogus", RB, RB>>,
      <<MARK, LB, "tn=get_associations", "arguments=", "scalar", RB>>,
      <<MARK, LB, "tn=get_associations", RB>> }

\* the loop body ran on the response of the request that returned
BodyRuns ==
    /\ pc = "completion"
    /\ rpc = "returned"
    /\ rpc' # "returned"
    /\ pc' # "done"

\* C25: an action naming "finish" ends the session with a final answer and
\* awaits no tool, with an arguments field or without an answer (the
\* generic message is then the answer); an action naming anything else
\* never ends the session with a final answer, and one that names a tool
\* and has no arguments makes the tool call
C25_FinishExcludesInvoke ==
    [][/\ (BodyRuns /\ response \in FinishActions) =>
            /\ pc' = "input"
            /\ tool_outcome' = NoOutcome
            /\ requests' = requests
            /\ Len(report') = 2
            /\ report'[1] = "Final Answer:"
            /\ report'[2] = IF response = FinishActions_WithAnswer
                            THEN "answer" ELSE "I have finished the task."
       /\ (BodyRuns /\ response \in OtherActions) =>
            /\ report' \in {<< >>, WARNING}
            /\ pc' = "input" => report' = WARNING
       /\ (BodyRuns /\ response = <<MARK, LB, "tn=get_associations", RB>>) =>
            pc' = "tool"]_vars

\* the session ended with the generic answer on a finish action that
\* carried arguments and no answer
C25_Witness ==
    /\ pc = "input"
    /\ response = <<MARK, LB, "tn=finish", "arguments=", LB, "entity_id",
                    RB, RB>>
    /\ report = <<"Final Answer:", "I have finished the task.">>
    /\ tool_outcome = NoOutcome

\* C26: with OPENAI_API_KEY not set, POST /chat is answered with status 503
\* and the detail "Chat service unavailable - OpenAI API key not
\* configured", and the provider is not called
C26_NoKeyAnswers503 ==
    (chat_pc = "responded" /\ ~chat_request.has_key) =>
        /\ provider_calls = 0
        /\ chat_response.status = 503
        /\ chat_response.detail = UNAVAILABLE

\* the sub-resource routes that share their prefix with a generic route
SubResources ==
    { [resource |-> "disease", sub |-> "phenotypes",
       endpoint |-> "get_disease_phenotypes"],
      [resource |-> "disease", sub |-> "genes",
       endpoint |-> "get_disease_genes"],
      [resource |-> "gene", sub |-> "phenotypes",
       endpoint |-> "get_gene_phenotypes"],
      [resource |-> "gene", sub |-> "diseases",
       endpoint |-> "get_gene_diseases"],
      [resource |-> "entity", sub |-> "children",
       endpoint |-> "get_entity_children"] }

\* C27: a GET for /disease/{id}/phenotypes, /disease/{id}/genes,
\* /gene/{id}/phenotypes, /gene/{id}/diseases or /entity/{id}/children is
\* served by the handler of that route, with {id} as its parameter, and not
\* by the generic handler registered before it
C27_SubResourceReachesItsHandler ==
    \A r \in SubResources :
        ( /\ served # NotServed
          /\ http_request.method = "GET"
          /\ Len(http_request.path) = 3
          /\ http_request.path[1] = r.resource
          /\ http_request.path[3] = r.sub ) =>
            /\ served.status = "served"
            /\ served.endpoint = r.endpoint
            /\ served.path_param = <<http_request.path[2]>>

\* a completion request ended with an exception
RequestFailed == pc = "completion" /\ rpc = "raised"

FatalErrors == {"RateLimitError", "APIError"}

\* main() ended with the error of the request, the client closed once
EndedWithError ==
    /\ pc = "done"
    /\ raised \in FatalErrors
    /\ api_client = "closed"
    /\ closes = 1

\* C28: when a completion request fails, after its last rate-limited
\* attempt or with another error, main() ends: the next step closes the
\* client (once in all) and leaves main() with that error, the step is
\* always taken, and no line is read afterwards
C28_FatalErrorEndsAgent ==
    /\ [][RequestFailed =>
              /\ raised \in FatalErrors
              /\ raised' = raised
              /\ pc' = "done"
              /\ api_client' = "closed"
              /\ closes' = closes + 1
              /\ UNCHANGED <<questions, question, history>>]_vars
    /\ [][pc = "done" =>
              pc' = "done" /\ UNCHANGED <<questions, question, closes>>]_vars
    /\ (RequestFailed ~> EndedWithError)

\* main() ended with the RateLimitError of the tenth attempt of a request
C28_Witness ==
    /\ EndedWithError
    /\ raised = "RateLimitError"
    /\ attempt = DEFAULT_MAX_RETRIES - 1
    /\ Len(slept) = DEFAULT_MAX_RETRIES - 1
    /\ questions >= 1

Larger(a, b) == IF a >= b THEN a ELSE b

\* C29: the cap bounds the waits that line 77 computes, not the initial
\* wait: every wait slept is at most max(initial_wait, 60); for
\* initial_wait <= 60 the waits never decrease and never exceed 60; for
\* initial_wait > 60 the first wait is initial_wait and every later one is
\* exactly 60; and a request that ends with the rate-limit error of its
\* last attempt made max_retries calls and slept max_retries - 1 times
C29_CapOnlyOnUpdate ==
    /\ \A n \in 1..Len(slept) :
           slept[n] <= Larger(initial_wait, WAIT_CAP) * Scale
    /\ initial_wait <= WAIT_CAP =>
           /\ \A n \in 1..Len(slept) : slept[n] <= WAIT_CAP * Scale
           /\ \A n \in 1..(Len(slept) - 1) : slept[n] <= slept[n + 1]
    /\ initial_wait > WAIT_CAP =>
           \A n \in 1..Len(slept) :
               slept[n] = IF n = 1 THEN initial_wait * Scale
                          ELSE WAIT_CAP * Scale
    /\ Len(slept) <= Larger(max_retries - 1, 0)
    /\ (rpc = "raised" /\ raised = "RateLimitError") =>
           /\ calls = max_retries
           /\ Len(slept) = max_retries - 1

\* a request with initial_wait 90 ended with the rate-limit error of its
\* third attempt: it slept 90 s and 60 s
C29_Witness ==
    /\ rpc = "raised"
    /\ raised = "RateLimitError"
    /\ initial_wait = 90
    /\ max_retries = 3
    /\ slept = <<90 * Scale, WAIT_CAP * Scale>>

\* the history a request supplies: `history`, or the deprecated
\* `conversation_history` when `history` is absent or empty
SuppliedHistory ==
    IF chat_request.history.entries # << >>
    THEN chat_request.history.entries
    ELSE chat_request.conversation_history.entries

\* the last 10 entries of the supplied history
SuppliedWindow ==
    LET h == SuppliedHistory
    IN  [k \in 1..(IF Len(h) > 10 THEN 10 ELSE Len(h)) |->
            h[k + (IF Len(h) > 10 THEN Len(h) - 10 ELSE 0)]]

\* message m was made from the history entry e
MadeFrom(m, e) ==
    /\ m.content = e.content
    /\ m.role = IF "role" \in DOMAIN e THEN e.role ELSE "user"

\* the messages ms are made from entries of es, in the order of es
RECURSIVE TakenInOrder(_, _)
TakenInOrder(ms, es) ==
    \/ ms = << >>
    \/ /\ es # << >>
       /\ IF MadeFrom(Head(ms), Head(es))
          THEN TakenInOrder(Tail(ms), Tail(es))
          ELSE TakenInOrder(ms, Tail(es))

\* C30: the list given to the model is one system message built by the
\* server, then at most 10 messages made in order from the last 10 entries
\* of the supplied history, each with role user or assistant and content
\* that is not empty, then the request's message with role user; no other
\* message has the role system, whatever the history holds
C30_ChatMessageConstruction ==
    provider_calls > 0 =>
        /\ provider_calls = 1
        /\ Len(messages) >= 2
        /\ messages[1] = SystemMessage
        /\ messages[Len(messages)] =
               [role |-> "user", content |-> chat_request.message]
        /\ {k \in 1..Len(messages) : messages[k].role = "system"} = {1}
        /\ LET taken == SubSeq(messages, 2, Len(messages) - 1)
           IN  /\ Len(taken) <= 10
               /\ \A k \in 1..Len(taken) :
                      /\ taken[k].role \in {"user", "assistant"}
                      /\ taken[k].content # << >>
               /\ TakenInOrder(taken, SuppliedWindow)

\* a history of 12 entries whose fifth has the role system: the model is
\* given the system message, entries 3, 4 and 6 to 12, and the message
C30_Witness ==
    /\ chat_pc = "awaiting"
    /\ Len(chat_request.history.entries) = 12
    /\ chat_request.history.entries[5] =
           [role |-> "system", content |-> <<"injected", 0>>]
    /\ Len(messages) = 11
    /\ messages[2].content = <<"turn", 3>>
    /\ messages[4].content = <<"turn", 6>>
    /\ messages[10].content = <<"turn", 12>>

====
